---- MODULE Spec2Model ----
(***************************************************************************)
(* Catalog-event consumer of aco-google-merchant-center: the action's      *)
(* main (validation, routing of change items to markets, the per-market    *)
(* loop), the product processor (classification, catalog fetches,          *)
(* transformation, feed dispatch) and the product transformer.             *)
(*                                                                         *)
(* Conventions.  A JavaScript value that may be undefined/null is a        *)
(* sequence of length 0 (absent) or 1 (present).  A string the code takes  *)
(* apart or changes the case of (a locale, a URL template) is a sequence   *)
(* of one-character or token strings.  A JavaScript Map or object used as  *)
(* a dictionary is a function; a Map whose iteration order the code relies *)
(* on is a sequence of entries in insertion order.                         *)
(***************************************************************************)
EXTENDS Integers, Sequences, FiniteSets, TLC

VARIABLES
    params,         \* the action's input parameters (environment and event)
    marketConfig,   \* config/markets/markets.json, as loadMarketConfig returns it
    attributeMapping, \* config/attributeMapping/attributeMapping.json
    commerce,       \* what Commerce holds: products and the variant pages of parents
    fault,          \* which upstream requests fail in this invocation
    pc,             \* position of main
    itemsByMarket,  \* the Map groupItemsByMarket returned, in insertion order
    mIdx,           \* position of main's for..of over itemsByMarket
    proc,           \* locals of the processProductEvent call in progress
    procCalls,      \* processProductEvent calls made so far
    catalogCalls,   \* requests sent to Commerce so far
    feedCalls,      \* dispatch calls made to the feed provider so far
    response        \* what main returned (absent while it runs)

vars == <<params, marketConfig, attributeMapping, commerce, fault, pc,
          itemsByMarket, mIdx, proc, procCalls, catalogCalls, feedCalls,
          response>>

----------------------------------------------------------------------------
(* Bounds of the model *)

MaxItems == 2
MaxMarkets == 2
MaxSources == 2
MaxPages == 2
MaxImages == 3

----------------------------------------------------------------------------
(* Generic helpers *)

Range(s) == {s[i] : i \in 1..Len(s)}

Min(a, b) == IF a < b THEN a ELSE b

SeqsUpTo(S, n) == UNION {[1..k -> S] : k \in 0..n}

NonEmptySeqsUpTo(S, n) == UNION {[1..k -> S] : k \in 1..n}

None == <<>>

Some(v) == <<v>>

IsSome(o) == Len(o) > 0

\* Map.set / object property assignment
MapSet(m, k, v) == [x \in (DOMAIN m) \cup {k} |-> IF x = k THEN v ELSE m[x]]

\* { ...a, ...b }
Spread(a, b) ==
    [x \in (DOMAIN a) \cup (DOMAIN b) |-> IF x \in DOMAIN b THEN b[x] ELSE a[x]]

EmptyMap == [x \in {} |-> None]

RECURSIVE Concat(_)
Concat(ss) == IF Len(ss) = 0 THEN <<>> ELSE Head(ss) \o Concat(Tail(ss))

\* String.prototype.toLowerCase on the letters the locales of the model use
LowerChar(c) ==
    CASE c = "E" -> "e"
      [] c = "N" -> "n"
      [] c = "U" -> "u"
      [] c = "S" -> "s"
      [] c = "F" -> "f"
      [] c = "R" -> "r"
      [] OTHER -> c

ToLowerCase(s) == [i \in 1..Len(s) |-> LowerChar(s[i])]

----------------------------------------------------------------------------
(* Program constants *)

HTTP_OK == 200
HTTP_BAD_REQUEST == 400
HTTP_INTERNAL_ERROR == 500

ACO_EVENT_TYPE_PRODUCT == "com.adobe.commerce.storefront.events.product.aco"
ACO_EVENT_TYPE_PRICE == "com.adobe.commerce.storefront.events.price.aco"

BATCH_SIZE == 25

----------------------------------------------------------------------------
(* actions/utils.js: request validation *)

\* params[key] for the keys main requires (data.* are the event's fields)
ParamValue(p, key) ==
    CASE key = "ACO_API_BASE_URL" -> p.ACO_API_BASE_URL
      [] key = "ACO_TENANT_ID" -> p.ACO_TENANT_ID
      [] key = "GOOGLE_CREDS_PATH" -> p.GOOGLE_CREDS_PATH
      [] key = "type" -> p.type
      [] key = "data.instanceId" -> p.instanceId
      [] key = "data.items" -> p.items

\* a check that misses the empty string
IsMissingValueUndefinedOnly(key, o) == o = None

\* traverse[last] === undefined || traverse[last] === ""
IsMissingValue(key, o) ==
    IF key = "data.items" THEN o = None ELSE (o = None \/ o = Some(""))

getMissingKeys(p, required) ==
    SelectSeq(required, LAMBDA r : IsMissingValue(r, ParamValue(p, r)))

\* the error message, or absent (null) when nothing is missing; main passes
\* no required headers
checkMissingRequestInputs(p, requiredParams) ==
    LET missingParams == getMissingKeys(p, requiredParams)
    IN  IF Len(missingParams) > 0
        THEN Some([kind |-> "missing parameter(s)", keys |-> missingParams,
                   detail |-> "", n |-> 0, m |-> 0])
        ELSE None

Message(kind, detail) ==
    [kind |-> kind, keys |-> <<>>, detail |-> detail, n |-> 0, m |-> 0]

ProcessedMessage(n, m, tenant) ==
    [kind |-> "Processed", keys |-> <<>>, detail |-> tenant, n |-> n, m |-> m]

\* actions/responses.js
errorResponse(statusCode, message) ==
    [statusCode |-> statusCode,
     body |-> [error |-> Some(message), type |-> None, response |-> None]]

successResponse(type, message) ==
    [statusCode |-> HTTP_OK,
     body |-> [error |-> None, type |-> Some(type), response |-> Some(message)]]

----------------------------------------------------------------------------
(* actions/config.js and the market router *)

\* buildLocaleIndex keyed by the locale as configured, not lowercased
buildLocaleIndexAsConfigured(markets) ==
    LET keys == {markets[i].aco.source.locale : i \in 1..Len(markets)}
    IN  [l \in keys |->
            SelectSeq(markets, LAMBDA mk : mk.aco.source.locale = l)]

\* Map<lowercase locale, MarketConfig[]>
buildLocaleIndex(markets) ==
    LET keys == {ToLowerCase(markets[i].aco.source.locale) : i \in 1..Len(markets)}
    IN  [l \in keys |->
            SelectSeq(markets, LAMBDA mk : ToLowerCase(mk.aco.source.locale) = l)]

IndexGet(localeIndex, locale) ==
    IF locale \in DOMAIN localeIndex THEN localeIndex[locale] ELSE <<>>

BucketOf(buckets, marketId) ==
    {i \in 1..Len(buckets) : buckets[i].marketId = marketId}

AddToBucket(buckets, market, item) ==
    IF BucketOf(buckets, market.id) # {}
    THEN LET i == CHOOSE j \in BucketOf(buckets, market.id) : TRUE
         IN  [buckets EXCEPT ![i].items = Append(@, item)]
    ELSE Append(buckets,
                [marketId |-> market.id, market |-> market, items |-> <<item>>])

RECURSIVE AddToMarkets(_, _, _)
AddToMarkets(buckets, markets, item) ==
    IF Len(markets) = 0 THEN buckets
    ELSE AddToMarkets(AddToBucket(buckets, Head(markets), item),
                      Tail(markets), item)

RECURSIVE RouteSources(_, _, _, _)
RouteSources(buckets, item, sources, localeIndex) ==
    IF Len(sources) = 0 THEN buckets
    ELSE RouteSources(
            AddToMarkets(buckets,
                         IndexGet(localeIndex, ToLowerCase(Head(sources).locale)),
                         item),
            item, Tail(sources), localeIndex)

\* for each item, for each of its sources, every market of the source's
\* lowercased locale receives the item
RECURSIVE groupItemsByMarket(_, _, _)
groupItemsByMarket(buckets, items, localeIndex) ==
    IF Len(items) = 0 THEN buckets
    ELSE LET routed == RouteSources(buckets, Head(items), Head(items).sources,
                                    localeIndex)
         IN  IF Len(routed) = 0
             THEN groupItemsByMarket(<<>>, Tail(items), localeIndex)
             ELSE groupItemsByMarket(routed, Tail(items), localeIndex)

\* actions/catalog/index.js
filterPriceItemsForMarket(items, priceBookId) ==
    SelectSeq(items, LAMBDA item :
        \E k \in 1..Len(item.sources) : item.sources[k].priceBookId = Some(priceBookId))

buildFeedConfig(p, market) ==
    [acoApiBaseUrl |-> p.ACO_API_BASE_URL,
     acoViewId |-> market.aco.viewId,
     acoPriceBookId |-> market.aco.priceBookId,
     googleCredsPath |-> p.GOOGLE_CREDS_PATH,
     googleMerchantId |-> market.google.merchantId,
     googleDataSourceId |-> market.google.dataSourceId,
     googleFeedLabel |-> market.google.feedLabel,
     googleContentLanguage |-> market.google.contentLanguage,
     googleTargetCountry |-> market.google.targetCountry,
     storeUrlTemplate |-> market.store.urlTemplate,
     marketId |-> market.id]

----------------------------------------------------------------------------
(* transformers/product.js *)

GOOGLE_STANDARD_FIELDS ==
    {"gtin", "mpn", "brand", "condition", "color", "size", "gender", "ageGroup",
     "material", "pattern", "googleProductCategory", "itemGroupId"}

ENUM_FIELDS == {"condition", "gender", "ageGroup"}

\* a value is truthy when present and not the empty string
Truthy(o) == o # None /\ o # Some("")

\* a || b
OrElse(a, b) == IF Truthy(a) THEN a ELSE b

\* String.prototype.toLowerCase on the attribute values the model uses
LowerValue(v) ==
    CASE v = "New" -> "new"
      [] v = "NEW" -> "new"
      [] v = "Used" -> "used"
      [] v = "Refurbished" -> "refurbished"
      [] v = "Brand New" -> "brand new"
      [] OTHER -> v

\* Number(v) of an attribute value, as a fraction; absent when NaN
NumberOf(v) ==
    CASE v = "5" -> Some([num |-> 5, den |-> 1])
      [] v = "4.99" -> Some([num |-> 499, den |-> 100])
      [] v = "0" -> Some([num |-> 0, den |-> 1])
      [] OTHER -> None

\* String.prototype.replace(pattern, value): the first occurrence only
ReplaceFirst(tokens, pattern, value) ==
    LET hits == {i \in 1..Len(tokens) : tokens[i] = pattern}
    IN  IF hits = {} THEN tokens
        ELSE LET first == CHOOSE i \in hits : \A j \in hits : i <= j
             IN  [tokens EXCEPT ![first] = value]

getProductUrl(product, urlTemplate) ==
    ReplaceFirst(ReplaceFirst(urlTemplate, "{sku}", product.sku),
                 "{urlKey}", product.urlKey)

\* Math.round(amount * 1_000_000), amount the fraction num/den: the whole
\* units and the rounded fraction apart, which keeps the products small
toMicros(amount) ==
    LET whole == amount.num \div amount.den
        rest == amount.num % amount.den
    IN  whole * 1000000 + (2 * rest * 1000000 + amount.den) \div (2 * amount.den)

\* the price amount object the record carries: the direct price, else the
\* price range's minimum
PriceAmount(product) ==
    IF IsSome(product.price) THEN product.price
    ELSE IF IsSome(product.priceRange) THEN product.priceRange
    ELSE None

transformPrice(product) ==
    LET amt == PriceAmount(product)
    IN  IF amt = None THEN None
        ELSE IF amt[1].value = None \/ amt[1].currency = "" THEN None
        ELSE Some([amountMicros |-> toMicros(amt[1].value[1]),
                   currencyCode |-> amt[1].currency])

getAvailability(inStock) ==
    IF inStock THEN "Availability.IN_STOCK" ELSE "Availability.OUT_OF_STOCK"

FirstIndex(seq, Test(_)) ==
    LET hits == {i \in 1..Len(seq) : Test(seq[i])}
    IN  IF hits = {} THEN 0 ELSE CHOOSE i \in hits : \A j \in hits : i <= j

\* attributes?.find(a => a.name === name)?.value || null
getAttributeValue(attributes, name) ==
    LET i == FirstIndex(attributes, LAMBDA a : a.name = name)
    IN  IF i = 0 \/ attributes[i].value = "" THEN None
        ELSE Some(attributes[i].value)

\* a shipping block for every record, priced 0 without a shipping price
getShippingInfoAlways(product, country) ==
    LET shippingMethod == getAttributeValue(product.attributes, "shippingMethod")
        shippingPrice == getAttributeValue(product.attributes, "shippingPrice")
        price == transformPrice(product)
    IN  Some([price |->
                 [amountMicros |->
                     IF shippingPrice = None THEN Some(0)
                     ELSE IF IsSome(NumberOf(shippingPrice[1]))
                     THEN Some(toMicros(NumberOf(shippingPrice[1])[1]))
                     ELSE None,
                  currencyCode |->
                     IF IsSome(price) THEN price[1].currencyCode ELSE "USD"],
              country |-> country,
              service |-> IF IsSome(shippingMethod) THEN shippingMethod[1]
                          ELSE "standard"])

getShippingInfo(product, country) ==
    LET shippingMethod == getAttributeValue(product.attributes, "shippingMethod")
        shippingPrice == getAttributeValue(product.attributes, "shippingPrice")
        price == transformPrice(product)
    IN  IF shippingPrice = None THEN None
        ELSE Some([price |->
                      [amountMicros |->
                          IF IsSome(NumberOf(shippingPrice[1]))
                          THEN Some(toMicros(NumberOf(shippingPrice[1])[1]))
                          ELSE None,
                       currencyCode |->
                          IF IsSome(price) THEN price[1].currencyCode ELSE "USD"],
                   country |-> country,
                   service |-> IF IsSome(shippingMethod) THEN shippingMethod[1]
                               ELSE "standard"])

getPrimaryImageUrl(images) ==
    IF Len(images) = 0 THEN None
    ELSE LET i == FirstIndex(images, LAMBDA img : "image" \in img.roles)
         IN  IF i # 0 /\ images[i].url # "" THEN Some(images[i].url)
             ELSE IF images[1].url # "" THEN Some(images[1].url)
             ELSE None

\* [...new Set(urls)]: first occurrences, in order
RECURSIVE Unique(_)
Unique(s) ==
    IF Len(s) = 0 THEN <<>>
    ELSE LET init == Unique(SubSeq(s, 1, Len(s) - 1))
             last == s[Len(s)]
         IN  IF last \in Range(init) THEN init ELSE Append(init, last)

\* additional images without the Set: every URL but the primary one
getAdditionalImageUrlsAll(images) ==
    IF Len(images) <= 1 THEN <<>>
    ELSE SelectSeq([i \in 1..Len(images) |-> images[i].url],
                   LAMBDA url : Some(url) # getPrimaryImageUrl(images))

getAdditionalImageUrls(images) ==
    IF Len(images) <= 1 THEN <<>>
    ELSE LET primaryUrl == getPrimaryImageUrl(images)
             uniqueUrls == Unique([i \in 1..Len(images) |-> images[i].url])
         IN  SelectSeq(uniqueUrls, LAMBDA url : Some(url) # primaryUrl)

\* Object.entries(fieldMappings).find(([, customAttr]) => customAttr === name)
getGoogleFieldName(mapping, customAttrName) ==
    LET i == FirstIndex(mapping.fieldMappings, LAMBDA e : e[2] = customAttrName)
    IN  IF i = 0 THEN customAttrName ELSE mapping.fieldMappings[i][1]

\* fieldMappings[field] || field
getCustomAttrName(mapping, field) ==
    LET i == FirstIndex(mapping.fieldMappings, LAMBDA e : e[1] = field)
    IN  IF i = 0 \/ mapping.fieldMappings[i][2] = "" THEN field
        ELSE mapping.fieldMappings[i][2]

ValueMapOf(mapping, field) ==
    IF field \in DOMAIN mapping.valueMappings THEN mapping.valueMappings[field]
    ELSE <<>>

\* a value mapper that ignores the table and lowercases
mapEnumValueUnmapped(mapping, customValue, field) ==
    IF ~Truthy(customValue) THEN None ELSE Some(LowerValue(customValue[1]))

mapEnumValue(mapping, customValue, field) ==
    IF ~Truthy(customValue) THEN None
    ELSE LET fieldValueMap == ValueMapOf(mapping, field)
             i == FirstIndex(fieldValueMap, LAMBDA e : e[2] = customValue[1])
         IN  IF i = 0 THEN Some(LowerValue(customValue[1]))
             ELSE Some(fieldValueMap[i][1])

\* the forward lookup of a Google value in the field's value map; the value
\* itself when the map has no entry for it
valueToSource(mapping, destinationValue, field) ==
    LET fieldValueMap == ValueMapOf(mapping, field)
        i == FirstIndex(fieldValueMap, LAMBDA e : e[1] = destinationValue)
    IN  IF i = 0 THEN destinationValue ELSE fieldValueMap[i][2]

mapCondition(condition) ==
    LET c == IF IsSome(condition) THEN LowerValue(condition[1]) ELSE ""
    IN  CASE c = "new" -> "Condition.NEW"
          [] c = "used" -> "Condition.USED"
          [] c = "refurbished" -> "Condition.REFURBISHED"
          [] OTHER -> "Condition.NEW"

\* one iteration of categorizeAttributes' loop
CategorizeOne(mapping, acc, attr) ==
    IF attr.value = "" THEN acc
    ELSE LET googleField == getGoogleFieldName(mapping, attr.name)
         IN  IF googleField \in GOOGLE_STANDARD_FIELDS
             THEN IF googleField = "gtin"
                  THEN [acc EXCEPT !.standard = MapSet(@, "gtins", <<attr.value>>)]
                  ELSE IF googleField \in ENUM_FIELDS
                  THEN [acc EXCEPT !.standard =
                          MapSet(@, googleField,
                                 mapEnumValue(mapping, Some(attr.value), googleField)[1])]
                  ELSE [acc EXCEPT !.standard = MapSet(@, googleField, attr.value)]
             ELSE [acc EXCEPT !.custom =
                      Append(@, [name |-> attr.name, value |-> attr.value])]

RECURSIVE CategorizeFrom(_, _, _)
CategorizeFrom(mapping, acc, attributes) ==
    IF Len(attributes) = 0 THEN acc
    ELSE CategorizeFrom(mapping, CategorizeOne(mapping, acc, Head(attributes)),
                        Tail(attributes))

categorizeAttributes(mapping, attributes) ==
    CategorizeFrom(mapping, [standard |-> EmptyMap, custom |-> <<>>], attributes)

\* an identifier test that is content with an mpn alone
hasValidIdentifiersMpnAlone(standardFields) ==
    \/ "gtins" \in DOMAIN standardFields
    \/ "mpn" \in DOMAIN standardFields

hasValidIdentifiers(standardFields) ==
    \/ "gtins" \in DOMAIN standardFields
    \/ ("brand" \in DOMAIN standardFields /\ "mpn" \in DOMAIN standardFields)

buildProductInput(feedLabel, language, offerId, productAttributes, customAttributes) ==
    [contentLanguage |-> language,
     feedLabel |-> feedLabel,
     offerId |-> offerId,
     productAttributes |-> productAttributes,
     customAttributes |-> customAttributes]

\* the optional fields both transforms add after the object literal
WithOptionalFields(attrs, shippingInfo, identified, additionalImages) ==
    LET a1 == IF IsSome(shippingInfo)
              THEN MapSet(attrs, "shipping", <<shippingInfo[1]>>) ELSE attrs
        a2 == IF ~identified THEN MapSet(a1, "identifierExists", FALSE) ELSE a1
    IN  IF Len(additionalImages) > 0
        THEN MapSet(a2, "additionalImageLinks", additionalImages) ELSE a2

\* absent when the transform throws (the record has no price)
transformProduct(mapping, feedLabel, product, language, country, urlTemplate) ==
    LET price == transformPrice(product)
        cat == categorizeAttributes(mapping, product.attributes)
        rawCondition ==
            getAttributeValue(product.attributes, getCustomAttrName(mapping, "condition"))
        mappedCondition == mapEnumValue(mapping, rawCondition, "condition")
        base == [title |-> product.name,
                 description |-> OrElse(product.description, product.shortDescription),
                 link |-> getProductUrl(product, urlTemplate),
                 imageLink |-> getPrimaryImageUrl(product.images),
                 availability |-> getAvailability(product.inStock),
                 condition |-> mapCondition(mappedCondition),
                 price |-> price[1]]
    IN  IF price = None THEN None
        ELSE Some(buildProductInput(feedLabel, language, product.sku,
                    WithOptionalFields(Spread(base, cat.standard),
                                       getShippingInfo(product, country),
                                       hasValidIdentifiers(cat.standard),
                                       getAdditionalImageUrls(product.images)),
                    cat.custom))

\* a variant transform that prices a variant without a price of its own
\* from the parent's price range
transformVariantParentPrice(mapping, feedLabel, parentProduct, variant, language, country, urlTemplate) ==
    transformProduct(mapping, feedLabel,
                     [variant.product EXCEPT !.priceRange =
                        IF variant.product.price = None THEN parentProduct.priceRange
                        ELSE @],
                     language, country, urlTemplate)

\* a variant transform that takes the variant's record on its own
transformVariantOwnFields(mapping, feedLabel, parentProduct, variant, language, country, urlTemplate) ==
    transformProduct(mapping, feedLabel, variant.product, language, country, urlTemplate)

transformVariant(mapping, feedLabel, parentProduct, variant, language, country, urlTemplate) ==
    LET variantProduct == variant.product
        images == IF Len(variantProduct.images) > 0 THEN variantProduct.images
                  ELSE parentProduct.images
        price == transformPrice(variantProduct)
        parentCategorized == categorizeAttributes(mapping, parentProduct.attributes)
        variantCategorized == categorizeAttributes(mapping, variantProduct.attributes)
        mergedAttributes == Spread(parentCategorized.standard, variantCategorized.standard)
        rawCondition ==
            getAttributeValue(variantProduct.attributes,
                              getCustomAttrName(mapping, "condition"))
        mappedCondition == mapEnumValue(mapping, rawCondition, "condition")
        base == [title |-> IF variantProduct.name # "" THEN variantProduct.name
                           ELSE parentProduct.name,
                 description |-> OrElse(variantProduct.description,
                                        OrElse(parentProduct.description,
                                               parentProduct.shortDescription)),
                 link |-> getProductUrl(parentProduct, urlTemplate),
                 imageLink |-> getPrimaryImageUrl(images),
                 availability |-> getAvailability(variantProduct.inStock),
                 condition |-> mapCondition(mappedCondition),
                 price |-> price[1],
                 itemGroupId |-> parentProduct.sku]
    IN  IF price = None THEN None
        ELSE Some(buildProductInput(feedLabel, language, variantProduct.sku,
                    WithOptionalFields(Spread(base, mergedAttributes),
                                       getShippingInfo(variantProduct, country),
                                       hasValidIdentifiers(mergedAttributes),
                                       getAdditionalImageUrls(images)),
                    variantCategorized.custom))

----------------------------------------------------------------------------
(* actions/utils.js: batching and grouping *)

\* a chunk that hands the whole array over as one group
chunkWhole(array, size) == IF Len(array) = 0 THEN <<>> ELSE <<array>>

chunk(array, size) ==
    [k \in 1..((Len(array) + size - 1) \div size) |->
        SubSeq(array, (k - 1) * size + 1, Min(k * size, Len(array)))]

\* keys that the accumulator, an object literal, answers with an inherited
\* member that is truthy and has no push
InheritedKeys ==
    {"constructor", "toString", "valueOf", "hasOwnProperty", "__proto__"}

\* threw: acc[operation] was an inherited member, so the push raised a
\* TypeError and no groups were returned
groupByOperation(items) ==
    [threw |-> \E i \in 1..Len(items) : items[i].operation \in InheritedKeys,
     create |-> SelectSeq(items, LAMBDA it : it.operation = "create"),
     update |-> SelectSeq(items, LAMBDA it : it.operation = "update"),
     delete |-> SelectSeq(items, LAMBDA it : it.operation = "delete")]

----------------------------------------------------------------------------
(* clients/commerce.js, against what Commerce holds and the faults injected *)

NoFault == [kind |-> "none", market |-> <<>>, page |-> 0]

\* does the request of this kind, made for this market, fail?
\* (page: the page of a variants request, 0 for a products request)
RequestFails(env, kind, page) ==
    /\ env.fault.kind = kind
    /\ env.fault.market = env.marketId
    /\ kind = "variants" => env.fault.page = page

ProductsCall(env, skus, ok) ==
    [market |-> env.marketId, kind |-> "products", skus |-> skus,
     parentSku |-> "", page |-> 0, ok |-> ok]

VariantsCall(env, parentSku, page, ok) ==
    [market |-> env.marketId, kind |-> "variants", skus |-> <<>>,
     parentSku |-> parentSku, page |-> page, ok |-> ok]

\* result.data?.products || [] of a request that succeeded
getProducts(env, skus) ==
    LET present == SelectSeq(skus, LAMBDA sku : sku \in DOMAIN env.commerce.products)
    IN  [i \in 1..Len(present) |-> env.commerce.products[present[i]]]

PagesOf(env, parentSku) ==
    IF parentSku \in DOMAIN env.commerce.variants
    THEN env.commerce.variants[parentSku] ELSE <<>>

\* getVariants' do..while from page k on: the first request carries a null
\* cursor, each page but the last returns the cursor of the next
RECURSIVE getVariantsFrom(_, _, _, _, _)
getVariantsFrom(env, parentSku, k, calls, allVariants) ==
    LET pages == PagesOf(env, parentSku)
    IN  IF RequestFails(env, "variants", k)
        THEN [calls |-> Append(calls, VariantsCall(env, parentSku, k, FALSE)),
              threw |-> TRUE, variants |-> <<>>]
        ELSE LET got == IF k <= Len(pages) THEN pages[k] ELSE <<>>
                 calls2 == Append(calls, VariantsCall(env, parentSku, k, TRUE))
             IN  IF k < Len(pages)
                 THEN getVariantsFrom(env, parentSku, k + 1, calls2, allVariants \o got)
                 ELSE [calls |-> calls2, threw |-> FALSE,
                       variants |-> allVariants \o got]

\* a variants fetch that asks for the first page only
getVariantsFirstPage(env, parentSku) ==
    LET pages == PagesOf(env, parentSku)
    IN  IF RequestFails(env, "variants", 1)
        THEN [calls |-> <<VariantsCall(env, parentSku, 1, FALSE)>>,
              threw |-> TRUE, variants |-> <<>>]
        ELSE [calls |-> <<VariantsCall(env, parentSku, 1, TRUE)>>, threw |-> FALSE,
              variants |-> IF Len(pages) > 0 THEN pages[1] ELSE <<>>]

getVariants(env, parentSku) == getVariantsFrom(env, parentSku, 1, <<>>, <<>>)

----------------------------------------------------------------------------
(* processors/aco/products.js *)

getVariantOfLink(item) ==
    LET i == FirstIndex(item.links, LAMBDA link : link.type = "variantOf")
    IN  IF i = 0 THEN None ELSE Some(item.links[i])

\* a classifier that keeps every item without a variantOf link as simple
categorizeItemsUnfiltered(items) ==
    LET complexVariantItems ==
            SelectSeq(items, LAMBDA it : IsSome(getVariantOfLink(it)))
        complexParentSkus ==
            Unique([i \in 1..Len(complexVariantItems) |->
                        getVariantOfLink(complexVariantItems[i])[1].sku])
    IN  [simpleItems |-> SelectSeq(items, LAMBDA it : ~IsSome(getVariantOfLink(it))),
         complexVariantItems |-> complexVariantItems,
         complexParentSkus |-> complexParentSkus]

categorizeItems(items) ==
    LET complexVariantItems ==
            SelectSeq(items, LAMBDA it : IsSome(getVariantOfLink(it)))
        simpleItems == SelectSeq(items, LAMBDA it : ~IsSome(getVariantOfLink(it)))
        complexParentSkus ==
            Unique([i \in 1..Len(complexVariantItems) |->
                        getVariantOfLink(complexVariantItems[i])[1].sku])
    IN  [simpleItems |->
            SelectSeq(simpleItems, LAMBDA it : it.sku \notin Range(complexParentSkus)),
         complexVariantItems |-> complexVariantItems,
         complexParentSkus |-> complexParentSkus]

\* the getProducts loop both fetchers run over their batches, from batch k on
RECURSIVE FetchBatches(_, _, _, _, _)
FetchBatches(env, batches, k, calls, map) ==
    IF k > Len(batches) THEN [calls |-> calls, threw |-> FALSE, map |-> map]
    ELSE IF RequestFails(env, "products", 0)
    THEN [calls |-> Append(calls, ProductsCall(env, batches[k], FALSE)),
          threw |-> TRUE, map |-> map]
    ELSE LET products == getProducts(env, batches[k])
             map2 == [sku \in (DOMAIN map) \cup {products[i].sku : i \in 1..Len(products)}
                        |-> IF sku \in DOMAIN env.commerce.products
                               /\ sku \in Range(batches[k])
                            THEN env.commerce.products[sku] ELSE map[sku]]
         IN  FetchBatches(env, batches, k + 1,
                          Append(calls, ProductsCall(env, batches[k], TRUE)), map2)

\* a fetcher that logs a failed request and goes on with what it has
fetchSimpleProductsLenient(env, skus) ==
    IF Len(skus) = 0 THEN [calls |-> <<>>, threw |-> FALSE, map |-> EmptyMap]
    ELSE [FetchBatches(env, chunk(skus, BATCH_SIZE), 1, <<>>, EmptyMap)
            EXCEPT !.threw = FALSE]

fetchSimpleProducts(env, skus) ==
    IF Len(skus) = 0 THEN [calls |-> <<>>, threw |-> FALSE, map |-> EmptyMap]
    ELSE FetchBatches(env, chunk(skus, BATCH_SIZE), 1, <<>>, EmptyMap)

\* variantDataMap.set(variant.product.sku, {parentProduct, variant}) for each
RECURSIVE SetVariants(_, _, _)
SetVariants(map, parentProduct, variants) ==
    IF Len(variants) = 0 THEN map
    ELSE SetVariants(MapSet(map, Head(variants).product.sku,
                            [parentProduct |-> parentProduct, variant |-> Head(variants)]),
                     parentProduct, Tail(variants))

\* the per-parent loop of fetchVariantData, from parent k on
RECURSIVE FetchParents(_, _, _, _, _, _)
FetchParents(env, parentSkus, parentMap, k, calls, map) ==
    IF k > Len(parentSkus) THEN [calls |-> calls, threw |-> FALSE, map |-> map]
    ELSE IF parentSkus[k] \notin DOMAIN parentMap
    THEN FetchParents(env, parentSkus, parentMap, k + 1, calls, map)
    ELSE LET r == getVariants(env, parentSkus[k])
         IN  FetchParents(env, parentSkus, parentMap, k + 1, calls \o r.calls,
                          IF r.threw THEN map
                          ELSE SetVariants(map, parentMap[parentSkus[k]], r.variants))

\* a fetcher that throws when Commerce returns no record for a parent
fetchVariantDataStrict(env, parentSkus) ==
    IF Len(parentSkus) = 0 THEN [calls |-> <<>>, threw |-> FALSE, map |-> EmptyMap]
    ELSE LET parents == FetchBatches(env, chunk(parentSkus, BATCH_SIZE), 1, <<>>, EmptyMap)
         IN  IF parents.threw THEN parents
             ELSE IF \E k \in 1..Len(parentSkus) : parentSkus[k] \notin DOMAIN parents.map
             THEN [parents EXCEPT !.threw = TRUE]
             ELSE FetchParents(env, parentSkus, parents.map, 1, parents.calls, EmptyMap)

fetchVariantData(env, parentSkus) ==
    IF Len(parentSkus) = 0 THEN [calls |-> <<>>, threw |-> FALSE, map |-> EmptyMap]
    ELSE LET parents == FetchBatches(env, chunk(parentSkus, BATCH_SIZE), 1, <<>>, EmptyMap)
         IN  IF parents.threw THEN parents
             ELSE FetchParents(env, parentSkus, parents.map, 1, parents.calls, EmptyMap)

\* the records one item yields: one transform per source, a failed
\* transform is logged and yields nothing
RECURSIVE PerSource(_, _)
PerSource(sources, record) ==
    IF Len(sources) = 0 THEN <<>> ELSE record \o PerSource(Tail(sources), record)

transformVariantItems(mapping, cfg, variantItems, variantDataMap) ==
    Concat([i \in 1..Len(variantItems) |->
        IF variantItems[i].sku \notin DOMAIN variantDataMap THEN <<>>
        ELSE LET data == variantDataMap[variantItems[i].sku]
             IN  PerSource(variantItems[i].sources,
                           transformVariant(mapping, cfg.googleFeedLabel,
                                            data.parentProduct, data.variant,
                                            cfg.googleContentLanguage,
                                            cfg.googleTargetCountry,
                                            cfg.storeUrlTemplate))])

\* a transform of the simple items that gives the whole group up when one
\* of its items fails
transformSimpleItemsAllOrNothing(mapping, cfg, simpleItems, productMap) ==
    LET each == [i \in 1..Len(simpleItems) |->
                    IF simpleItems[i].sku \notin DOMAIN productMap THEN <<>>
                    ELSE PerSource(simpleItems[i].sources,
                                   transformProduct(mapping, cfg.googleFeedLabel,
                                                    productMap[simpleItems[i].sku],
                                                    cfg.googleContentLanguage,
                                                    cfg.googleTargetCountry,
                                                    cfg.storeUrlTemplate))]
    IN  IF \E i \in 1..Len(simpleItems) :
              simpleItems[i].sku \in DOMAIN productMap /\ Len(each[i]) = 0
        THEN <<>>
        ELSE Concat(each)

transformSimpleItems(mapping, cfg, simpleItems, productMap) ==
    Concat([i \in 1..Len(simpleItems) |->
        IF simpleItems[i].sku \notin DOMAIN productMap THEN <<>>
        ELSE PerSource(simpleItems[i].sources,
                       transformProduct(mapping, cfg.googleFeedLabel,
                                        productMap[simpleItems[i].sku],
                                        cfg.googleContentLanguage,
                                        cfg.googleTargetCountry,
                                        cfg.storeUrlTemplate))])

\* Promise.all of the two fetchers, then the two transforms; the requests
\* are listed fetcher by fetcher
fetchAndTransformProducts(env, mapping, cfg, items) ==
    LET cat == categorizeItems(items)
        variantData == fetchVariantData(env, cat.complexParentSkus)
        simple == fetchSimpleProducts(env,
                    [i \in 1..Len(cat.simpleItems) |-> cat.simpleItems[i].sku])
    IN  [calls |-> variantData.calls \o simple.calls,
         threw |-> variantData.threw \/ simple.threw,
         products |->
            IF variantData.threw \/ simple.threw THEN <<>>
            ELSE transformVariantItems(mapping, cfg, cat.complexVariantItems,
                                       variantData.map)
                 \o transformSimpleItems(mapping, cfg, cat.simpleItems, simple.map)]

prepareItemsToDelete(items) ==
    LET variantItems == SelectSeq(items, LAMBDA it : IsSome(getVariantOfLink(it)))
        parentSkus == {getVariantOfLink(variantItems[i])[1].sku :
                          i \in 1..Len(variantItems)}
        kept == SelectSeq(items, LAMBDA it : it.sku \notin parentSkus)
    IN  Concat([i \in 1..Len(kept) |->
            [k \in 1..Len(kept[i].sources) |->
                [sku |-> kept[i].sku, source |-> kept[i].sources[k]]]])

----------------------------------------------------------------------------
(* clients/google/products.js: the requests of one call, one per record or
   SKU; resource names are kept as the sequence of their parts *)

DataSourceName(merchantId, dataSourceId) ==
    <<"accounts/", merchantId, "/dataSources/", dataSourceId>>

ProductInputName(merchantId, language, feedLabel, sku) ==
    <<"accounts/", merchantId, "/productInputs/", language, "~", feedLabel, "~", sku>>

insertProducts(merchantId, dataSourceId, productInputs) ==
    [i \in 1..Len(productInputs) |->
        [parent |-> <<"accounts/", merchantId>>,
         dataSource |-> DataSourceName(merchantId, dataSourceId),
         productInput |-> productInputs[i]]]

updateProducts(merchantId, dataSourceId, productInputs) ==
    [i \in 1..Len(productInputs) |->
        [productInput |->
            Spread([name |-> ProductInputName(merchantId,
                                              productInputs[i].contentLanguage,
                                              productInputs[i].feedLabel,
                                              productInputs[i].offerId)],
                   productInputs[i]),
         dataSource |-> DataSourceName(merchantId, dataSourceId)]]

\* a delete whose product id leaves the feed label out
deleteProductsWithoutLabel(merchantId, dataSourceId, feedLabel, language, skus) ==
    [i \in 1..Len(skus) |->
        [name |-> <<"accounts/", merchantId, "/productInputs/", language, "~", skus[i]>>,
         dataSource |-> DataSourceName(merchantId, dataSourceId)]]

deleteProducts(merchantId, dataSourceId, feedLabel, language, skus) ==
    [i \in 1..Len(skus) |->
        [name |-> ProductInputName(merchantId, language, feedLabel, skus[i]),
         dataSource |-> DataSourceName(merchantId, dataSourceId)]]

----------------------------------------------------------------------------
(* The action's main, one step per stretch between its awaits and returns *)

IdleProc ==
    [phase |-> "idle", step |-> "", marketId |-> <<>>, cfg |-> None,
     groups |-> [create |-> <<>>, update |-> <<>>, delete |-> <<>>],
     products |-> <<>>]

\* processProductEvent(tenantId, items, feedConfig, logger) is entered
StartProc(market, items) ==
    [phase |-> "create", step |-> "fetch", marketId |-> market.id,
     cfg |-> Some(buildFeedConfig(params, market)),
     groups |-> [op \in {"create", "update", "delete"} |->
                    groupByOperation(items)[op]],
     products |-> <<>>]

ProcEnv == [commerce |-> commerce, fault |-> fault, marketId |-> proc.marketId]

Items == params.items[1]

EventType == params.type[1]

TenantId == params.instanceId[1]

Return(r) ==
    /\ response' = Some(r)
    /\ pc' = "done"

\* the required-input checks and the tenant check
Validate ==
    /\ pc = "start"
    /\ LET missingEnv ==
               checkMissingRequestInputs(params,
                   <<"ACO_API_BASE_URL", "ACO_TENANT_ID", "GOOGLE_CREDS_PATH">>)
           missingParams ==
               checkMissingRequestInputs(params,
                   <<"type", "data.instanceId", "data.items">>)
       IN  IF IsSome(missingEnv)
           THEN Return(errorResponse(HTTP_INTERNAL_ERROR, missingEnv[1]))
           ELSE IF IsSome(missingParams)
           THEN Return(errorResponse(HTTP_BAD_REQUEST, missingParams[1]))
           ELSE IF params.instanceId # params.ACO_TENANT_ID
           THEN Return(errorResponse(HTTP_BAD_REQUEST,
                    Message("Event tenant ID does not match expected tenant ID",
                            TenantId)))
           ELSE /\ pc' = "route"
                /\ UNCHANGED response
    /\ UNCHANGED <<params, marketConfig, attributeMapping, commerce, fault,
                   itemsByMarket, mIdx, proc, procCalls, catalogCalls, feedCalls>>

\* Route without the empty check: the loop is entered whatever was grouped
RouteWithoutEmptyCheck ==
    /\ pc = "route"
    /\ itemsByMarket' = groupItemsByMarket(<<>>, Items, buildLocaleIndex(marketConfig))
    /\ pc' = "market"
    /\ mIdx' = 1
    /\ UNCHANGED <<params, marketConfig, attributeMapping, commerce, fault,
                   proc, procCalls, catalogCalls, feedCalls, response>>

\* loadMarketConfig, buildLocaleIndex, groupItemsByMarket and the empty check
Route ==
    /\ pc = "route"
    /\ LET grouped ==
               groupItemsByMarket(<<>>, Items, buildLocaleIndex(marketConfig))
       IN  /\ itemsByMarket' = grouped
           /\ IF Len(grouped) = 0
              THEN /\ Return(successResponse(EventType,
                        Message("No event items matched configured markets", "")))
                   /\ UNCHANGED mIdx
              ELSE /\ pc' = "market"
                   /\ mIdx' = 1
                   /\ UNCHANGED response
    /\ UNCHANGED <<params, marketConfig, attributeMapping, commerce, fault,
                   proc, procCalls, catalogCalls, feedCalls>>

\* a catch that answers with a message of its own
ThrowGeneric(detail) ==
    Return(errorResponse(HTTP_INTERNAL_ERROR, Message("error", "server error")))

\* main's catch: the error's message becomes a 500
Throw(detail) ==
    Return(errorResponse(HTTP_INTERNAL_ERROR, Message("error", detail)))

\* a loop that takes the routed markets last to first
BeginMarketReversed ==
    /\ pc = "market"
    /\ mIdx <= Len(itemsByMarket)
    /\ LET market == itemsByMarket[Len(itemsByMarket) + 1 - mIdx].market
           marketItems == itemsByMarket[Len(itemsByMarket) + 1 - mIdx].items
           validItems == filterPriceItemsForMarket(marketItems, market.aco.priceBookId)
           Call(items) ==
               /\ procCalls' = Append(procCalls,
                                      [market |-> market.id, items |-> items])
               /\ IF groupByOperation(items).threw
                  THEN /\ Throw("acc[operation].push is not a function")
                       /\ UNCHANGED <<mIdx, proc>>
                  ELSE /\ proc' = StartProc(market, items)
                       /\ pc' = "proc"
                       /\ UNCHANGED <<mIdx, response>>
       IN  IF EventType = ACO_EVENT_TYPE_PRODUCT
           THEN Call(marketItems)
           ELSE IF EventType = ACO_EVENT_TYPE_PRICE
           THEN IF Len(validItems) > 0
                THEN Call(validItems)
                ELSE /\ mIdx' = mIdx + 1
                     /\ UNCHANGED <<pc, proc, procCalls, response>>
           ELSE /\ Return(errorResponse(HTTP_BAD_REQUEST,
                                        Message("Invalid event type", EventType)))
                /\ UNCHANGED <<mIdx, proc, procCalls>>
    /\ UNCHANGED <<params, marketConfig, attributeMapping, commerce, fault,
                   itemsByMarket, catalogCalls, feedCalls>>

\* one turn of the for..of loop up to the processProductEvent call
BeginMarket ==
    /\ pc = "market"
    /\ mIdx <= Len(itemsByMarket)
    /\ LET market == itemsByMarket[mIdx].market
           marketItems == itemsByMarket[mIdx].items
           validItems == filterPriceItemsForMarket(marketItems, market.aco.priceBookId)
           Call(items) ==
               /\ procCalls' = Append(procCalls,
                                      [market |-> market.id, items |-> items])
               /\ IF groupByOperation(items).threw
                  THEN /\ Throw("acc[operation].push is not a function")
                       /\ UNCHANGED <<mIdx, proc>>
                  ELSE /\ proc' = StartProc(market, items)
                       /\ pc' = "proc"
                       /\ UNCHANGED <<mIdx, response>>
       IN  IF EventType = ACO_EVENT_TYPE_PRODUCT
           THEN Call(marketItems)
           ELSE IF EventType = ACO_EVENT_TYPE_PRICE
           THEN IF Len(validItems) > 0
                THEN Call(validItems)
                ELSE /\ mIdx' = mIdx + 1
                     /\ UNCHANGED <<pc, proc, procCalls, response>>
           ELSE /\ Return(errorResponse(HTTP_BAD_REQUEST,
                                        Message("Invalid event type", EventType)))
                /\ UNCHANGED <<mIdx, proc, procCalls>>
    /\ UNCHANGED <<params, marketConfig, attributeMapping, commerce, fault,
                   itemsByMarket, catalogCalls, feedCalls>>

RECURSIVE SumItems(_)
SumItems(buckets) ==
    IF Len(buckets) = 0 THEN 0
    ELSE Len(Head(buckets).items) + SumItems(Tail(buckets))

\* the loop is over: the summary
Finish ==
    /\ pc = "market"
    /\ mIdx > Len(itemsByMarket)
    /\ Return(successResponse(EventType,
            ProcessedMessage(SumItems(itemsByMarket), Len(itemsByMarket), TenantId)))
    /\ UNCHANGED <<params, marketConfig, attributeMapping, commerce, fault,
                   itemsByMarket, mIdx, proc, procCalls, catalogCalls, feedCalls>>

\* the deletes handled straight after the creates, the updates last
NextPhaseDeletesSecond(phase) ==
    CASE phase = "create" -> "delete"
      [] phase = "delete" -> "update"
      [] OTHER -> "idle"

NextPhase(phase) ==
    CASE phase = "create" -> "update"
      [] phase = "update" -> "delete"
      [] OTHER -> "idle"

\* the first half of a "Handle creates / updates / deletes" block of
\* processProductEvent: the group's fetch and transform (deletes: the
\* flattening of the items to delete)
ProcFetch ==
    /\ pc = "proc"
    /\ proc.step = "fetch"
    /\ LET group == proc.groups[proc.phase]
           r == fetchAndTransformProducts(ProcEnv, attributeMapping, proc.cfg[1], group)
       IN  IF proc.phase = "delete"
           THEN /\ proc' = [proc EXCEPT !.step = "dispatch",
                                        !.products = IF Len(group) > 0
                                                     THEN prepareItemsToDelete(group)
                                                     ELSE <<>>]
                /\ UNCHANGED <<pc, response, catalogCalls>>
           ELSE IF Len(group) = 0
           THEN /\ proc' = [proc EXCEPT !.step = "dispatch", !.products = <<>>]
                /\ UNCHANGED <<pc, response, catalogCalls>>
           ELSE /\ catalogCalls' = catalogCalls \o r.calls
                /\ IF r.threw
                   THEN /\ Throw("Commerce Storefront API error")
                        /\ UNCHANGED proc
                   ELSE /\ proc' = [proc EXCEPT !.step = "dispatch",
                                                !.products = r.products]
                        /\ UNCHANGED <<pc, response>>
    /\ UNCHANGED <<params, marketConfig, attributeMapping, commerce, fault,
                   itemsByMarket, mIdx, procCalls, feedCalls>>

FeedOp(phase) ==
    CASE phase = "create" -> "insert"
      [] phase = "update" -> "update"
      [] OTHER -> "delete"

\* the requests the group's client call issues: the delete is given the
\* market's feed label and content language and the SKUs to delete
FeedRequests(phase, cfg, products) ==
    CASE phase = "create" ->
            insertProducts(cfg.googleMerchantId, cfg.googleDataSourceId, products)
      [] phase = "update" ->
            updateProducts(cfg.googleMerchantId, cfg.googleDataSourceId, products)
      [] OTHER ->
            deleteProducts(cfg.googleMerchantId, cfg.googleDataSourceId,
                           cfg.googleFeedLabel, cfg.googleContentLanguage,
                           [i \in 1..Len(products) |-> products[i].sku])

\* a dispatch that carries on after a failed call
ProcDispatchLenient ==
    /\ pc = "proc"
    /\ proc.step = "dispatch"
    /\ LET fails == RequestFails(ProcEnv, "feed", 0)
           Advance ==
               IF NextPhase(proc.phase) = "idle"
               THEN /\ proc' = IdleProc
                    /\ pc' = "market"
                    /\ mIdx' = mIdx + 1
                    /\ UNCHANGED response
               ELSE /\ proc' = [proc EXCEPT !.phase = NextPhase(proc.phase),
                                            !.step = "fetch", !.products = <<>>]
                    /\ UNCHANGED <<pc, mIdx, response>>
       IN  IF Len(proc.products) = 0
           THEN /\ Advance
                /\ UNCHANGED feedCalls
           ELSE /\ feedCalls' = Append(feedCalls,
                                       [market |-> proc.marketId,
                                        op |-> FeedOp(proc.phase),
                                        records |-> proc.products,
                                        requests |-> FeedRequests(proc.phase,
                                                        proc.cfg[1], proc.products),
                                        ok |-> ~fails])
                /\ Advance
    /\ UNCHANGED <<params, marketConfig, attributeMapping, commerce, fault,
                   itemsByMarket, procCalls, catalogCalls>>

\* the second half: the group's dispatch call, one request per record, all
\* issued before any result is awaited
ProcDispatch ==
    /\ pc = "proc"
    /\ proc.step = "dispatch"
    /\ LET fails == RequestFails(ProcEnv, "feed", 0)
           Advance ==
               IF NextPhase(proc.phase) = "idle"
               THEN /\ proc' = IdleProc
                    /\ pc' = "market"
                    /\ mIdx' = mIdx + 1
                    /\ UNCHANGED response
               ELSE /\ proc' = [proc EXCEPT !.phase = NextPhase(proc.phase),
                                            !.step = "fetch", !.products = <<>>]
                    /\ UNCHANGED <<pc, mIdx, response>>
       IN  IF Len(proc.products) = 0
           THEN /\ Advance
                /\ UNCHANGED feedCalls
           ELSE /\ feedCalls' = Append(feedCalls,
                                       [market |-> proc.marketId,
                                        op |-> FeedOp(proc.phase),
                                        records |-> proc.products,
                                        requests |-> FeedRequests(proc.phase,
                                                        proc.cfg[1], proc.products),
                                        ok |-> ~fails])
                /\ IF fails
                   THEN /\ Throw("Feed provider error")
                        /\ UNCHANGED <<proc, mIdx>>
                   ELSE Advance
    /\ UNCHANGED <<params, marketConfig, attributeMapping, commerce, fault,
                   itemsByMarket, procCalls, catalogCalls>>

Next ==
    \/ Validate
    \/ Route
    \/ BeginMarket
    \/ Finish
    \/ ProcFetch
    \/ ProcDispatch

----------------------------------------------------------------------------
(* The inputs of an invocation *)

\* "en-US", "en-us", "fr-FR"
EN_US == <<"e", "n", "-", "U", "S">>
EN_LOWER == <<"e", "n", "-", "u", "s">>
FR_FR == <<"f", "r", "-", "F", "R">>

ItemSkus == <<"A", "B", "C", "D">>

TENANT == "tenant-123"

UrlTemplate == <<"https://store.example.com/products/", "{urlKey}">>

MarketId(i) == <<"market", i>>

\* one entry of markets.json
Market(i, locale, priceBookId) ==
    [id |-> MarketId(i),
     aco |-> [viewId |-> <<"view", i>>, priceBookId |-> priceBookId,
              source |-> [locale |-> locale]],
     google |-> [merchantId |-> "merchant-123", dataSourceId |-> <<"datasource", i>>,
                 feedLabel |-> <<"FEED", i>>, contentLanguage |-> "en",
                 targetCountry |-> "US"],
     store |-> [urlTemplate |-> UrlTemplate]]

\* the market lists of at most MaxMarkets markets, ids unique
MarketConfigs(locales, priceBooks) ==
    UNION {{[i \in 1..n |-> Market(i, f[i][1], f[i][2])] :
                f \in [1..n -> locales \X priceBooks]} : n \in 0..MaxMarkets}

Source(locale, priceBookId) == [locale |-> locale, priceBookId |-> priceBookId]

Item(sku, operation, sources, links) ==
    [sku |-> sku, operation |-> operation, sources |-> sources, links |-> links]

VariantOf(parentSku) == <<[type |-> "variantOf", sku |-> parentSku]>>

\* batches of at most MaxItems items, the i-th with SKU ItemSkus[i]
Batches(operations, sourceLists) ==
    UNION {{[i \in 1..n |-> Item(ItemSkus[i], f[i][1], f[i][2], <<>>)] :
                f \in [1..n -> operations \X sourceLists]} : n \in 0..MaxItems}

ValidEnv == <<Some("https://api.example.com"), Some(TENANT), Some("/path/to/creds.json")>>

ParamsSet(envs, types, instanceIds, itemLists) ==
    {[ACO_API_BASE_URL |-> e[1], ACO_TENANT_ID |-> e[2], GOOGLE_CREDS_PATH |-> e[3],
      type |-> t, instanceId |-> id, items |-> its] :
        e \in envs, t \in types, id \in instanceIds, its \in itemLists}

ValidParams(type, batches) ==
    ParamsSet({ValidEnv}, {Some(type)}, {Some(TENANT)}, {Some(b) : b \in batches})

USD(num, den) == Some([value |-> Some([num |-> num, den |-> den]), currency |-> "USD"])

\* a SimpleProductView record
SimpleProduct(sku, price, attributes) ==
    [sku |-> sku, typename |-> "SimpleProductView", name |-> sku,
     description |-> None, shortDescription |-> None, urlKey |-> sku,
     inStock |-> TRUE, images |-> <<>>, attributes |-> attributes,
     price |-> price, priceRange |-> None]

\* a ComplexProductView record: no direct price, a price range
ComplexProduct(sku, attributes) ==
    [sku |-> sku, typename |-> "ComplexProductView", name |-> sku,
     description |-> None, shortDescription |-> None, urlKey |-> sku,
     inStock |-> TRUE, images |-> <<>>, attributes |-> attributes,
     price |-> None, priceRange |-> USD(10, 1)]

Variant(product) == [selections |-> <<>>, product |-> product]

DefaultMapping ==
    [fieldMappings |-> <<>>,
     valueMappings |-> [condition |-> <<>>, gender |-> <<>>, ageGroup |-> <<>>]]

\* Commerce holding every SKU of ItemSkus as a priced simple product
SimpleCommerce ==
    [products |-> [sku \in Range(ItemSkus) |-> SimpleProduct(sku, USD(10, 1), <<>>)],
     variants |-> EmptyMap]

InitWith(paramsSet, marketConfigs, mappings, commerces, faults) ==
    /\ params \in paramsSet
    /\ marketConfig \in marketConfigs
    /\ attributeMapping \in mappings
    /\ commerce \in commerces
    /\ fault \in faults
    /\ pc = "start"
    /\ itemsByMarket = <<>>
    /\ mIdx = 0
    /\ proc = IdleProc
    /\ procCalls = <<>>
    /\ catalogCalls = <<>>
    /\ feedCalls = <<>>
    /\ response = None

\* Invocations of any validity, over single-source items and markets of two
\* locales, with a products or a feed failure in one market
EnvChoices ==
    {ValidEnv,
     <<None, Some(TENANT), Some("/path/to/creds.json")>>,
     <<Some("https://api.example.com"), Some(""), Some("/path/to/creds.json")>>,
     <<None, None, None>>}

MainFaults ==
    {NoFault} \cup {[kind |-> k, market |-> MarketId(i), page |-> 0] :
                        k \in {"products", "feed"}, i \in 1..MaxMarkets}

Init ==
    InitWith(
        ParamsSet(EnvChoices,
                  {None, Some(ACO_EVENT_TYPE_PRODUCT), Some(ACO_EVENT_TYPE_PRICE),
                   Some("invalid.event.type")},
                  {None, Some(TENANT), Some("wrong-tenant")},
                  {None} \cup {Some(b) : b \in Batches({"create"},
                        {<<Source(EN_US, None)>>, <<Source(FR_FR, None)>>})}),
        MarketConfigs({EN_US, FR_FR}, {"pb1"}),
        {DefaultMapping}, {SimpleCommerce}, MainFaults)

Spec == Init /\ [][Next]_vars

\* Valid events over markets some of which share a locale.  The router runs
\* before the event type is looked at: the items of up to MaxSources sources
\* come in price events whose sources name no price book, which every market
\* they are routed to then skips; product events carry one-source items and
\* are processed in full.
RouteSourceLists ==
    NonEmptySeqsUpTo({Source(EN_LOWER, None), Source(FR_FR, None)}, MaxSources)

InitRoute ==
    InitWith(
        ValidParams(ACO_EVENT_TYPE_PRICE, Batches({"update"}, RouteSourceLists))
            \cup ValidParams(ACO_EVENT_TYPE_PRODUCT,
                             Batches({"create"}, {l \in RouteSourceLists : Len(l) = 1})),
        MarketConfigs({EN_US, FR_FR}, {"pb1"}),
        {DefaultMapping}, {SimpleCommerce}, {NoFault})

SpecRoute == InitRoute /\ [][Next]_vars

\* Valid price events whose sources carry a price-book id or none
InitPrice ==
    InitWith(
        ValidParams(ACO_EVENT_TYPE_PRICE,
                    Batches({"update"},
                            NonEmptySeqsUpTo({Source(EN_US, None), Source(EN_US, Some("pb1")),
                                              Source(FR_FR, Some("pb2"))},
                                             MaxSources))),
        MarketConfigs({EN_US, FR_FR}, {"pb1", "pb2"}),
        {DefaultMapping}, {SimpleCommerce}, {NoFault})

SpecPrice == InitPrice /\ [][Next]_vars

\* the variants of a parent, spread over n pages: one per page, the last
\* page holding the rest
VariantPages(variants, n) ==
    [k \in 1..n |->
        IF k < n
        THEN IF k <= Len(variants) THEN <<variants[k]>> ELSE <<>>
        ELSE IF k <= Len(variants) THEN SubSeq(variants, k, Len(variants)) ELSE <<>>]

EnSource == <<Source(EN_US, None)>>

\* One market; simple product A, complex parent P with variants V and W;
\* Commerce holding them or not; a failure of the products request, of one
\* page of the variants request, or of the feed
ProcItems ==
    {Item("A", op, EnSource, <<>>) : op \in {"create", "update", "delete"}}
        \cup {Item("P", "create", EnSource, <<>>)}
        \cup {Item(sku, "create", EnSource, VariantOf("P")) : sku \in {"V", "W"}}

ProcCommerces ==
    LET simple == {EmptyMap, [sku \in {"A"} |-> SimpleProduct("A", USD(499, 100), <<>>)]}
        parent == [sku \in {"P"} |-> ComplexProduct("P", <<>>)]
        variants == <<Variant(SimpleProduct("V", USD(10, 1), <<>>)),
                      Variant(SimpleProduct("W", USD(12, 1), <<>>))>>
    IN  {[products |-> a, variants |-> EmptyMap] : a \in simple}
            \cup {[products |-> Spread(a, parent),
                   variants |-> [sku \in {"P"} |-> VariantPages(variants, n)]] :
                        a \in simple, n \in 1..MaxPages}

ProcFaults ==
    {NoFault}
        \cup {[kind |-> k, market |-> MarketId(1), page |-> 0] : k \in {"products", "feed"}}
        \cup {[kind |-> "variants", market |-> MarketId(1), page |-> n] : n \in 1..MaxPages}

InitProc ==
    InitWith(
        ValidParams(ACO_EVENT_TYPE_PRODUCT, SeqsUpTo(ProcItems, MaxItems)),
        {<<Market(1, EN_US, "pb1")>>},
        {DefaultMapping}, ProcCommerces, ProcFaults)

SpecProc == InitProc /\ [][Next]_vars

Attr(name, value) == [name |-> name, value |-> value]

\* Two variants V and W of parent P in one product event; the attributes of
\* the three and the attribute mapping vary
XformAttributes ==
    {<<>>, <<Attr("itemGroupId", "GRP-X")>>, <<Attr("family", "F1")>>,
     <<Attr("color", "red")>>}

XformMappings ==
    {DefaultMapping,
     [DefaultMapping EXCEPT !.fieldMappings = <<<<"itemGroupId", "family">>>>]}

XformCommerces ==
    {[products |-> [sku \in {"P"} |-> ComplexProduct("P", pa)],
      variants |-> [sku \in {"P"} |->
                        <<<<Variant(SimpleProduct("V", USD(10, 1), va)),
                            Variant(SimpleProduct("W", USD(12, 1), wa))>>>>]] :
        pa \in XformAttributes, va \in XformAttributes, wa \in XformAttributes}

InitXform ==
    InitWith(
        ValidParams(ACO_EVENT_TYPE_PRODUCT,
                    {<<Item("V", "create", EnSource, VariantOf("P")),
                       Item("W", "create", EnSource, VariantOf("P"))>>}),
        {<<Market(1, EN_US, "pb1")>>},
        XformMappings, XformCommerces, {NoFault})

SpecXform == InitXform /\ [][Next]_vars

----------------------------------------------------------------------------
(* Properties *)

\* the routing has happened: main is past groupItemsByMarket
PastRouting ==
    \/ pc \in {"market", "proc"}
    \/ pc = "done" /\ IsSome(response)
         /\ (mIdx > 0 \/ response[1].body.response =
                            Some(Message("No event items matched configured markets", "")))

\* the locales are equal but for the case of their letters
SameLocale(a, b) == ToLowerCase(a) = ToLowerCase(b)

MatchingMarkets(item) ==
    {m \in 1..Len(marketConfig) :
        \E k \in 1..Len(item.sources) :
            SameLocale(item.sources[k].locale, marketConfig[m].aco.source.locale)}

BucketsHolding(item) ==
    {b \in 1..Len(itemsByMarket) : item \in Range(itemsByMarket[b].items)}

\* C1: routing puts an item into the bucket of exactly the markets whose
\* locale equals, case-insensitively, the locale of one of the item's
\* sources: an item with k matching markets is in exactly k buckets, one per
\* market; an item that matches no market is in no bucket and the invocation
\* does not fail.
C1_RoutingByLocale ==
    PastRouting =>
        /\ \A b1, b2 \in 1..Len(itemsByMarket) :
              itemsByMarket[b1].marketId = itemsByMarket[b2].marketId => b1 = b2
        /\ \A b \in 1..Len(itemsByMarket) :
              /\ \E m \in 1..Len(marketConfig) :
                    /\ marketConfig[m].id = itemsByMarket[b].marketId
                    /\ marketConfig[m] = itemsByMarket[b].market
              /\ Range(itemsByMarket[b].items) \subseteq Range(Items)
        /\ \A i \in 1..Len(Items) :
              /\ \A m \in 1..Len(marketConfig) :
                    (m \in MatchingMarkets(Items[i]))
                        <=> \E b \in BucketsHolding(Items[i]) :
                                itemsByMarket[b].marketId = marketConfig[m].id
              /\ Cardinality(BucketsHolding(Items[i]))
                    = Cardinality(MatchingMarkets(Items[i]))
        /\ IsSome(response) => response[1].statusCode = HTTP_OK

\* an item whose lowercase locale matches two markets configured in mixed
\* case sits in both buckets, beside an item that matched none
C1_Witness ==
    /\ pc = "market"
    /\ \E i, j \in 1..Len(Items) :
          /\ Cardinality(MatchingMarkets(Items[i])) = 2
          /\ Cardinality(BucketsHolding(Items[i])) = 2
          /\ \E m \in MatchingMarkets(Items[i]) :
                Items[i].sources[1].locale # marketConfig[m].aco.source.locale
          /\ MatchingMarkets(Items[j]) = {}
          /\ BucketsHolding(Items[j]) = {}

EnvMissing ==
    \E v \in {params.ACO_API_BASE_URL, params.ACO_TENANT_ID, params.GOOGLE_CREDS_PATH} :
        v = None \/ v = Some("")

FieldsMissing ==
    \/ params.type = None \/ params.type = Some("")
    \/ params.instanceId = None \/ params.instanceId = Some("")
    \/ params.items = None

TenantMismatch == params.instanceId # params.ACO_TENANT_ID

\* configuration, required fields and tenant id are all valid
Validated == ~EnvMissing /\ ~FieldsMissing /\ ~TenantMismatch

KnownType ==
    params.type \in {Some(ACO_EVENT_TYPE_PRODUCT), Some(ACO_EVENT_TYPE_PRICE)}

NoItemMatches == \A i \in 1..Len(Items) : MatchingMarkets(Items[i]) = {}

NoCalls == procCalls = <<>> /\ catalogCalls = <<>> /\ feedCalls = <<>>

NoMatchResponse ==
    successResponse(EventType, Message("No event items matched configured markets", ""))

\* C2: when no item of a valid invocation matches a configured market (an
\* empty items list included), main answers 200 with the message that no
\* event items matched configured markets, and makes no processProductEvent
\* call, no catalog fetch and no feed dispatch.
C2_NoMatchIsSuccess ==
    (Validated /\ KnownType /\ NoItemMatches) =>
        /\ NoCalls
        /\ pc \in {"start", "route", "done"}
        /\ pc = "done" => response = Some(NoMatchResponse)

\* a batch of items, none of a configured locale, answered
C2_Witness ==
    /\ Validated /\ KnownType /\ NoItemMatches
    /\ Len(Items) > 0 /\ Len(marketConfig) > 0
    /\ pc = "done" /\ response = Some(NoMatchResponse)

\* C3: an invocation whose event type is neither product-change nor
\* price-change, all else being valid, is answered 400 with the
\* invalid-event-type error and makes no processing call, catalog fetch or
\* feed dispatch, whatever its items and whether or not they match a market.
C3_InvalidTypeRejected ==
    (Validated /\ ~KnownType) =>
        /\ NoCalls
        /\ pc = "done" =>
              response = Some(errorResponse(HTTP_BAD_REQUEST,
                                            Message("Invalid event type", EventType)))

\* an event of an unknown type none of whose items matches a market is
\* answered 200
C3_Witness ==
    /\ Validated /\ ~KnownType /\ NoItemMatches
    /\ pc = "done" /\ response = Some(NoMatchResponse)

EnvKeys == {"ACO_API_BASE_URL", "ACO_TENANT_ID", "GOOGLE_CREDS_PATH"}

FieldKeys == {"type", "data.instanceId", "data.items"}

\* the answer is the missing-parameter error of this status over these keys
MissingAnswer(statusCode, keys) ==
    /\ IsSome(response)
    /\ response[1].statusCode = statusCode
    /\ IsSome(response[1].body.error)
    /\ response[1].body.error[1].kind = "missing parameter(s)"
    /\ Len(response[1].body.error[1].keys) > 0
    /\ Range(response[1].body.error[1].keys) \subseteq keys

NeverRouted == itemsByMarket = <<>> /\ mIdx = 0 /\ pc \in {"start", "done"} /\ NoCalls

\* C4: main checks the required configuration parameters, then the required
\* event fields type, data.instanceId and data.items, then the equality of
\* data.instanceId with the expected tenant id; the first check that fails
\* alone decides the answer (500, 400, 400), and nothing is routed,
\* processed, fetched or dispatched.
C4_ValidationOrder ==
    /\ EnvMissing =>
          /\ NeverRouted
          /\ pc = "done" => MissingAnswer(HTTP_INTERNAL_ERROR, EnvKeys)
    /\ (~EnvMissing /\ FieldsMissing) =>
          /\ NeverRouted
          /\ pc = "done" => MissingAnswer(HTTP_BAD_REQUEST, FieldKeys)
    /\ (~EnvMissing /\ ~FieldsMissing /\ TenantMismatch) =>
          /\ NeverRouted
          /\ pc = "done" =>
                response = Some(errorResponse(HTTP_BAD_REQUEST,
                    Message("Event tenant ID does not match expected tenant ID",
                            TenantId)))

\* an empty configuration value, a missing event field and another tenant
\* at once: the configuration check answers
C4_Witness ==
    /\ params.ACO_TENANT_ID = Some("") /\ params.type = None
    /\ params.instanceId = Some("wrong-tenant")
    /\ pc = "done" /\ MissingAnswer(HTTP_INTERNAL_ERROR, EnvKeys)

MarketById(id) == CHOOSE m \in Range(marketConfig) : m.id = id

\* a source of the item that matched the market by locale carries the
\* market's price-book id
PassesByRelevantSource(item, market) ==
    \E k \in 1..Len(item.sources) :
        /\ SameLocale(item.sources[k].locale, market.aco.source.locale)
        /\ item.sources[k].priceBookId = Some(market.aco.priceBookId)

\* C5: for a price-change event, an item routed to market M is passed to M's
\* processing only if its source that matched M carries M's price-book id;
\* when no item of M's bucket passes, no processing call is made for M, and
\* the invocation still answers 200.
C5_PriceFilterByRelevantSource ==
    (Validated /\ params.type = Some(ACO_EVENT_TYPE_PRICE)) =>
        /\ \A c \in 1..Len(procCalls) :
              /\ Len(procCalls[c].items) > 0
              /\ \A item \in Range(procCalls[c].items) :
                    PassesByRelevantSource(item, MarketById(procCalls[c].market))
        /\ pc = "done" => response[1].statusCode = HTTP_OK

\* an item is processed for a market on the price-book id of a source of
\* another locale
C5_Witness ==
    /\ params.type = Some(ACO_EVENT_TYPE_PRICE)
    /\ \E c \in 1..Len(procCalls) : \E item \in Range(procCalls[c].items) :
          ~PassesByRelevantSource(item, MarketById(procCalls[c].market))

CatalogFailed == \E i \in 1..Len(catalogCalls) : ~catalogCalls[i].ok

FeedFailed == \E i \in 1..Len(feedCalls) : ~feedCalls[i].ok

CallsFor(marketId) ==
    /\ \/ \E i \in 1..Len(catalogCalls) : catalogCalls[i].market = marketId
       \/ \E i \in 1..Len(feedCalls) : feedCalls[i].market = marketId
       \/ \E i \in 1..Len(procCalls) : procCalls[i].market = marketId

\* C6: when the processing of a market throws, main answers 500 with the
\* thrown error's message; no catalog fetch or feed dispatch is made for a
\* market later in the iteration order, and what was dispatched for the
\* earlier markets stays dispatched.
C6_FirstErrorAborts ==
    (CatalogFailed \/ FeedFailed) =>
        /\ pc = "done"
        /\ response = Some(errorResponse(HTTP_INTERNAL_ERROR,
                Message("error", IF CatalogFailed THEN "Commerce Storefront API error"
                                 ELSE "Feed provider error")))
        /\ mIdx \in 1..Len(itemsByMarket)
        /\ \A i \in 1..Len(catalogCalls) :
              ~catalogCalls[i].ok => catalogCalls[i].market = itemsByMarket[mIdx].marketId
        /\ \A i \in 1..Len(feedCalls) :
              ~feedCalls[i].ok => feedCalls[i].market = itemsByMarket[mIdx].marketId
        /\ \A b \in (mIdx + 1)..Len(itemsByMarket) : ~CallsFor(itemsByMarket[b].marketId)
        /\ \A b \in 1..(mIdx - 1) :
              \E i \in 1..Len(feedCalls) :
                 /\ feedCalls[i].market = itemsByMarket[b].marketId
                 /\ feedCalls[i].ok
                 /\ Len(feedCalls[i].records) = Len(itemsByMarket[b].items)

\* the first market's catalog fetch failed: a second market was never begun
C6_Witness ==
    /\ pc = "done" /\ CatalogFailed /\ mIdx = 1 /\ Len(itemsByMarket) = 2
    /\ ~CallsFor(itemsByMarket[2].marketId)
    /\ response[1].statusCode = HTTP_INTERNAL_ERROR

\* the records the feed was asked to insert or update
UpsertRecords ==
    UNION {Range(feedCalls[i].records) :
              i \in {j \in 1..Len(feedCalls) : feedCalls[j].op \in {"insert", "update"}}}

IsComplexParent(sku) ==
    /\ sku \in DOMAIN commerce.products
    /\ commerce.products[sku].typename = "ComplexProductView"

\* C7: no insert or update is ever requested whose offerId is the SKU of a
\* complex (parent) catalog record; a parent's own change item is skipped,
\* also when it arrives without a variantOf link and without its variants.
C7_ParentNeverSent ==
    \A r \in UpsertRecords : ~IsComplexParent(r.offerId)

\* the parent's own item, alone in its batch, was inserted
C7_Witness ==
    /\ \A i \in 1..Len(Items) : Items[i].sku = "P" /\ Items[i].links = <<>>
    /\ \E r \in UpsertRecords : r.offerId = "P" /\ IsComplexParent("P")

\* the items that declare a parent Commerce does not return
OrphanVariants ==
    {i \in 1..Len(Items) :
        /\ IsSome(getVariantOfLink(Items[i]))
        /\ getVariantOfLink(Items[i])[1].sku \notin DOMAIN commerce.products}

\* the simple items of a create or update group that Commerce holds
FetchableSimpleItems ==
    {i \in 1..Len(Items) :
        /\ Items[i].links = <<>>
        /\ Items[i].operation \in {"create", "update"}
        /\ Items[i].sku \in DOMAIN commerce.products
        /\ \A j \in 1..Len(Items) :
              (Items[j].operation = Items[i].operation
                    /\ IsSome(getVariantOfLink(Items[j])))
                 => getVariantOfLink(Items[j])[1].sku # Items[i].sku}

\* C8 as stated: a batch with a variant item whose parent Commerce does not
\* return makes the market's processing throw, and no insert or update is
\* requested for that market.
C8_MissingParentThrows ==
    (OrphanVariants # {} /\ fault = NoFault) =>
        /\ UpsertRecords = {}
        /\ pc = "done" => response[1].statusCode = HTTP_INTERNAL_ERROR

\* C8: a variant item whose parent Commerce does not return is skipped: no
\* insert or update is requested for it, the processing does not throw on
\* its account (the invocation answers 200 when nothing else fails), and
\* the batch's simple items that Commerce holds are still sent.
C8_MissingParentSkipped ==
    OrphanVariants # {} =>
        /\ \A i \in OrphanVariants : \A r \in UpsertRecords : r.offerId # Items[i].sku
        /\ (fault = NoFault /\ pc = "done") =>
              /\ response[1].statusCode = HTTP_OK
              /\ \A i \in FetchableSimpleItems :
                    \E r \in UpsertRecords : r.offerId = Items[i].sku

\* variant V of the missing parent P beside simple product A: A was sent,
\* V was not, the answer is 200
C8_Witness ==
    /\ OrphanVariants # {} /\ FetchableSimpleItems # {} /\ fault = NoFault
    /\ pc = "done" /\ response[1].statusCode = HTTP_OK
    /\ \E r \in UpsertRecords : r.offerId = "A"
    /\ \A r \in UpsertRecords : r.offerId # "V"

ProductsFailed ==
    \E i \in 1..Len(catalogCalls) :
        catalogCalls[i].kind = "products" /\ ~catalogCalls[i].ok

VariantsFailed ==
    \E i \in 1..Len(catalogCalls) :
        catalogCalls[i].kind = "variants" /\ ~catalogCalls[i].ok

\* no request that failed is issued again
NeverRetried ==
    \A i, j \in 1..Len(catalogCalls) :
        (i < j /\ ~catalogCalls[i].ok) =>
            [catalogCalls[j] EXCEPT !.ok = FALSE] # catalogCalls[i]

ParentPageUrl == <<"https://store.example.com/products/", "P">>

\* C10: the records of two variants of parent P, transformed for the same
\* market, both carry itemGroupId = P's SKU and the same link, the URL of
\* P's product page, whatever the attributes of the three and the mapping.
C10_VariantsGrouped ==
    \A r \in UpsertRecords :
        /\ r.productAttributes.itemGroupId = "P"
        /\ r.productAttributes.link = ParentPageUrl

\* a variant's own itemGroupId attribute replaced the parent's SKU
C10_Witness ==
    \E r1, r2 \in UpsertRecords :
        /\ r1.offerId = "V" /\ r2.offerId = "W"
        /\ r1.productAttributes.itemGroupId = "GRP-X"
        /\ r2.productAttributes.itemGroupId = "P"
        /\ r1.productAttributes.link = ParentPageUrl

----------------------------------------------------------------------------
(* Identifier policy *)

\* Simple product A and variant V of parent P in one product event; the
\* three carry any of gtin, brand and mpn, an empty gtin, or the gtin under
\* the custom name "ean", which the second mapping maps to gtin
IdentAttributes ==
    {<<>>, <<Attr("gtin", "4006381333931")>>, <<Attr("brand", "Acme")>>,
     <<Attr("mpn", "MPN-1")>>, <<Attr("brand", "Acme"), Attr("mpn", "MPN-1")>>,
     <<Attr("gtin", "")>>, <<Attr("ean", "4006381333931")>>}

IdentMappings ==
    {DefaultMapping, [DefaultMapping EXCEPT !.fieldMappings = <<<<"gtin", "ean">>>>]}

IdentCommerces ==
    {[products |-> [sku \in {"A", "P"} |->
                        IF sku = "A" THEN SimpleProduct("A", USD(499, 100), aa)
                        ELSE ComplexProduct("P", pa)],
      variants |-> [sku \in {"P"} |->
                        <<<<Variant(SimpleProduct("V", USD(10, 1), va))>>>>]] :
        aa \in IdentAttributes, pa \in IdentAttributes, va \in IdentAttributes}

InitIdent ==
    InitWith(
        ValidParams(ACO_EVENT_TYPE_PRODUCT,
                    {<<Item("A", "create", EnSource, <<>>),
                       Item("V", "create", EnSource, VariantOf("P"))>>}),
        {<<Market(1, EN_US, "pb1")>>},
        IdentMappings, IdentCommerces, {NoFault})

SpecIdent == InitIdent /\ [][Next]_vars

\* the destination fields the attributes with a value are stored under
StandardNamesOf(attributes) ==
    {getGoogleFieldName(attributeMapping, attributes[i].name) :
        i \in {j \in 1..Len(attributes) : attributes[j].value # ""}}

\* the attributes a record's identifiers come from: its own product's, for a
\* variant the parent's and the variant's
IdentifierSources(offerId) ==
    IF offerId = "V"
    THEN StandardNamesOf(commerce.products["P"].attributes)
            \cup StandardNamesOf(commerce.variants["P"][1][1].product.attributes)
    ELSE StandardNamesOf(commerce.products[offerId].attributes)

\* C11: a transformed record whose standard fields hold neither a GTIN nor
\* both brand and mpn carries identifierExists = false, and a record that
\* carries a GTIN has no identifierExists; for a variant the fields are the
\* parent's standard fields overlaid by the variant's.
C11_IdentifierPolicy ==
    \A r \in UpsertRecords :
        LET pa == r.productAttributes
            names == IdentifierSources(r.offerId)
        IN  /\ ("gtins" \in DOMAIN pa) <=> ("gtin" \in names)
            /\ ("brand" \in DOMAIN pa) <=> ("brand" \in names)
            /\ ("mpn" \in DOMAIN pa) <=> ("mpn" \in names)
            /\ ("gtins" \notin DOMAIN pa
                    /\ ~("brand" \in DOMAIN pa /\ "mpn" \in DOMAIN pa))
                 => ("identifierExists" \in DOMAIN pa /\ pa.identifierExists = FALSE)
            /\ "gtins" \in DOMAIN pa => "identifierExists" \notin DOMAIN pa

\* V takes its brand from the parent and its mpn from itself and is
\* identified; A, which has an mpn only, is flagged
C11_Witness ==
    \E r1, r2 \in UpsertRecords :
        /\ r1.offerId = "V"
        /\ commerce.products["P"].attributes = <<Attr("brand", "Acme")>>
        /\ commerce.variants["P"][1][1].product.attributes = <<Attr("mpn", "MPN-1")>>
        /\ "identifierExists" \notin DOMAIN r1.productAttributes
        /\ r2.offerId = "A"
        /\ "mpn" \in DOMAIN r2.productAttributes
        /\ r2.productAttributes.identifierExists = FALSE

----------------------------------------------------------------------------
(* Prices *)

Amount(num, den, currency) ==
    Some([value |-> Some([num |-> num, den |-> den]), currency |-> currency])

\* price objects: none, one without a value, and the amounts 0, 29.99, 10,
\* 0.0000004, 0.0000016 and -5, with a currency or without
PriceChoices ==
    {None, Some([value |-> None, currency |-> "USD"])}
        \cup {Amount(a[1], a[2], c) :
                a \in {<<0, 1>>, <<2999, 100>>, <<10, 1>>, <<4, 10000000>>,
                       <<16, 10000000>>, <<-5, 1>>},
                c \in {"USD", ""}}

PricedProduct(sku, price, priceRange) ==
    [SimpleProduct(sku, price, <<>>) EXCEPT !.priceRange = priceRange]

\* Simple product A and variant V of parent P in one product event: A's
\* price and price range and V's price vary, P has a price range
MicrosCommerces ==
    {[products |-> [sku \in {"A", "P"} |->
                        IF sku = "A" THEN PricedProduct("A", ap, ar)
                        ELSE ComplexProduct("P", <<>>)],
      variants |-> [sku \in {"P"} |->
                        <<<<Variant(PricedProduct("V", vp, None))>>>>]] :
        ap \in PriceChoices, ar \in {None, USD(12, 1), Amount(-1, 4, "USD")},
        vp \in PriceChoices}

InitMicros ==
    InitWith(
        ValidParams(ACO_EVENT_TYPE_PRODUCT,
                    {<<Item("A", "create", EnSource, <<>>),
                       Item("V", "create", EnSource, VariantOf("P"))>>}),
        {<<Market(1, EN_US, "pb1")>>},
        {DefaultMapping}, MicrosCommerces, {NoFault})

SpecMicros == InitMicros /\ [][Next]_vars

\* the catalog record a feed record was made from
RecordOf(offerId) ==
    IF offerId = "V" THEN commerce.variants["P"][1][1].product
    ELSE commerce.products[offerId]

\* the price the record resolves to: the direct price, else the range
ResolvedPrice(product) ==
    IF product.price # None THEN product.price ELSE product.priceRange

\* m = round(num/den x 1,000,000), halves rounded up: m - 1/2 <= the
\* amount in micros < m + 1/2, the whole units set apart
IsRoundedMicros(m, amount) ==
    LET whole == amount.num \div amount.den
        rest == amount.num % amount.den
        k == m - whole * 1000000
    IN  /\ k \in 0..1000000
        /\ 2 * k * amount.den - amount.den <= 2 * rest * 1000000
        /\ 2 * rest * 1000000 < 2 * k * amount.den + amount.den

NoUsableAmount(product) ==
    \/ ResolvedPrice(product) = None
    \/ ResolvedPrice(product)[1].value = None
    \/ ResolvedPrice(product)[1].value[1].num < 0

\* C12: a transformed record's price.amountMicros is round(amount x
\* 1,000,000) of the resolved price amount (the direct price, else the
\* price range's minimum) and is a non-negative integer; amount 0 gives 0;
\* a negative or missing amount makes the transform fail, so that no record
\* is produced.
C12_MicrosRoundedAndNonNegative ==
    \A r \in UpsertRecords :
        LET product == RecordOf(r.offerId)
            micros == r.productAttributes.price.amountMicros
        IN  /\ ~NoUsableAmount(product)
            /\ IsRoundedMicros(micros, ResolvedPrice(product)[1].value[1])
            /\ micros \in Nat
            /\ ResolvedPrice(product)[1].value[1].num = 0 => micros = 0

\* a record with a negative amountMicros was sent
C12_Witness ==
    \E r \in UpsertRecords :
        /\ r.productAttributes.price.amountMicros = -5000000
        /\ ResolvedPrice(RecordOf(r.offerId))[1].value[1].num = -5

\* the record has a price of its own to list: an amount and a currency
HasResolvablePrice(product) ==
    /\ ResolvedPrice(product) # None
    /\ ResolvedPrice(product)[1].value # None
    /\ ResolvedPrice(product)[1].currency # ""

\* C13: the transform fails, producing no record, for every catalog record
\* without a resolvable price (no amount, or no currency), whatever its
\* other fields; for a variant the variant's own record decides, also when
\* the parent has a price range.  Every other record is transformed.
C13_NoPriceNoRecord ==
    /\ \A r \in UpsertRecords : HasResolvablePrice(RecordOf(r.offerId))
    /\ pc = "done" =>
          \A sku \in {"A", "V"} :
              HasResolvablePrice(RecordOf(sku))
                 <=> \E r \in UpsertRecords : r.offerId = sku

\* V has no price while its parent P has a price range: A was sent, V not
C13_Witness ==
    /\ pc = "done"
    /\ RecordOf("V").price = None
    /\ commerce.products["P"].priceRange # None
    /\ \E r \in UpsertRecords : r.offerId = "A"
    /\ \A r \in UpsertRecords : r.offerId # "V"

----------------------------------------------------------------------------
(* Resource names: product events that create, update and delete the same
   SKUs, over markets whose content language is or is not the language of
   their locale *)

MarketIn(i, locale, priceBookId, language) ==
    [Market(i, locale, priceBookId) EXCEPT !.google.contentLanguage = language]

NameMarkets ==
    UNION {{[i \in 1..n |-> MarketIn(i, EN_US, "pb1", f[i])] :
                f \in [1..n -> {"en", "fr"}]} : n \in 1..MaxMarkets}

NameItems ==
    {Item("A", op, EnSource, <<>>) : op \in {"create", "update", "delete"}}
        \cup {Item("B", "delete", EnSource, <<>>)}

InitNames ==
    InitWith(
        ValidParams(ACO_EVENT_TYPE_PRODUCT, SeqsUpTo(NameItems, MaxItems)),
        NameMarkets, {DefaultMapping}, {SimpleCommerce}, {NoFault})

SpecNames == InitNames /\ [][Next]_vars

\* the name under which the feed holds a record
NameOfRecord(market, record) ==
    <<"accounts/", market.google.merchantId, "/productInputs/",
      record.contentLanguage, "~", record.feedLabel, "~", record.offerId>>

DeleteCalls == {i \in 1..Len(feedCalls) : feedCalls[i].op = "delete"}

UpsertCalls == {i \in 1..Len(feedCalls) : feedCalls[i].op \in {"insert", "update"}}

----------------------------------------------------------------------------
(* Dispatch order within one market *)

UpsertCallsFor(calls, marketId) ==
    {i \in 1..Len(calls) : calls[i].market = marketId /\ calls[i].op \in {"insert", "update"}}

DeleteCallsFor(calls, marketId) ==
    {i \in 1..Len(calls) : calls[i].market = marketId /\ calls[i].op = "delete"}

\* C15: within one market the create and the update items leave in one single
\* upsert dispatch, and that dispatch and the delete dispatch are issued
\* together: neither is issued once the other has already been made
C15_OneUpsertUnorderedWithDelete ==
    [][\A i \in 1..Len(marketConfig) :
          LET id == marketConfig[i].id
          IN  /\ Cardinality(UpsertCallsFor(feedCalls', id)) <= 1
              /\ DeleteCallsFor(feedCalls', id) # DeleteCallsFor(feedCalls, id)
                    => UpsertCallsFor(feedCalls, id) = {}
              /\ UpsertCallsFor(feedCalls', id) # UpsertCallsFor(feedCalls, id)
                    => DeleteCallsFor(feedCalls, id) = {}]_vars

\* the creates and the updates of one market have left in two dispatches,
\* one after the other
C15_Witness ==
    \E i, j \in 1..Len(feedCalls) :
        /\ i < j
        /\ feedCalls[i].market = feedCalls[j].market
        /\ feedCalls[i].op = "insert"
        /\ feedCalls[j].op = "update"

----------------------------------------------------------------------------
(* Order across markets *)

\* the catalog requests and feed dispatches made for a market so far
RequestsFor(catalog, feed, marketId) ==
    Cardinality({i \in 1..Len(catalog) : catalog[i].market = marketId})
        + Cardinality({i \in 1..Len(feed) : feed[i].market = marketId})

\* C16: for two markets A before B in routing order, once a catalog fetch or
\* a feed dispatch has been made for B, none is made for A any more: all of
\* A's were made, and awaited, before B's first
C16_MarketsInSequence ==
    [][\A a, b \in 1..Len(itemsByMarket') :
          a < b /\ RequestsFor(catalogCalls', feedCalls', itemsByMarket'[b].market.id) > 0
            => RequestsFor(catalogCalls', feedCalls', itemsByMarket'[a].market.id)
                   = RequestsFor(catalogCalls, feedCalls, itemsByMarket'[a].market.id)]_vars

\* two routed markets have both had their catalog fetch and their dispatches
C16_Witness ==
    /\ Len(itemsByMarket) = 2
    /\ mIdx > 2
    /\ \A b \in 1..2 :
          /\ \E i \in 1..Len(catalogCalls) :
                catalogCalls[i].market = itemsByMarket[b].market.id
          /\ Cardinality({i \in 1..Len(feedCalls) :
                feedCalls[i].market = itemsByMarket[b].market.id}) = 2

----------------------------------------------------------------------------
(* Classification: product events over SKUs A, P and V whose links name P or
   V as parent, hold another kind of link first, or are absent *)

Related(sku) == <<[type |-> "related", sku |-> sku]>>

ClassifyLinks ==
    {<<>>, VariantOf("P"), VariantOf("V"), Related("P"), Related("A") \o VariantOf("P")}

ClassifyItems ==
    {Item(sku, "create", EnSource, links) : sku \in {"A", "P", "V"}, links \in ClassifyLinks}

ClassifyCommerce ==
    [products |-> [sku \in {"A", "P"} |-> IF sku = "A"
                                           THEN SimpleProduct("A", USD(499, 100), <<>>)
                                           ELSE ComplexProduct("P", <<>>)],
     variants |-> [sku \in {"P"} |-> <<<<Variant(SimpleProduct("V", USD(10, 1), <<>>))>>>>]]

InitClassify ==
    InitWith(
        ValidParams(ACO_EVENT_TYPE_PRODUCT, SeqsUpTo(ClassifyItems, MaxItems)),
        {<<Market(1, EN_US, "pb1")>>},
        {DefaultMapping}, {ClassifyCommerce}, {NoFault})

SpecClassify == InitClassify /\ [][Next]_vars

\* the SKUs that the items of a batch name in a variantOf link
NamedAsParent(items) ==
    {link.sku : link \in {l \in UNION {Range(items[i].links) : i \in 1..Len(items)} :
                              l.type = "variantOf"}}

HasVariantOf(item) == \E k \in 1..Len(item.links) : item.links[k].type = "variantOf"

\* the batches the processor classifies: the operation groups of the market
\* being processed
ClassifiedBatches ==
    IF pc = "proc" THEN {proc.groups[op] : op \in {"create", "update", "delete"}} ELSE {}

\* C17: in every batch the simple items and the parent SKUs are disjoint, no
\* simple item has a SKU that an item of the batch names in a variantOf link,
\* and an item with a variantOf link is a variant and never simple
C17_SimpleAndParentsDisjoint ==
    \A items \in ClassifiedBatches :
        LET cat == categorizeItems(items)
        IN  /\ \A i \in 1..Len(cat.simpleItems) :
                  /\ cat.simpleItems[i].sku \notin Range(cat.complexParentSkus)
                  /\ cat.simpleItems[i].sku \notin NamedAsParent(items)
            /\ \A i \in 1..Len(items) :
                  HasVariantOf(items[i]) =>
                      /\ items[i] \in Range(cat.complexVariantItems)
                      /\ items[i] \notin Range(cat.simpleItems)

\* the creates of a market have been fetched: P's own item, without a link,
\* came with an item that names P as its parent
C17_Witness ==
    /\ pc = "proc"
    /\ proc.phase = "create"
    /\ proc.step = "dispatch"
    /\ \E i, j \in 1..Len(proc.groups.create) :
          /\ proc.groups.create[i].sku = "P"
          /\ ~HasVariantOf(proc.groups.create[i])
          /\ HasVariantOf(proc.groups.create[j])
          /\ "P" \in Range(categorizeItems(proc.groups.create).complexParentSkus)

----------------------------------------------------------------------------
(* Attribute mapping tables: none, one to one, two Google names or values
   for one custom name or value, two entries that swap names or values, a
   Google name as the custom name of another field, an empty custom name *)

MappingFieldTables ==
    {<<>>,
     <<<<"brand", "manufacturer">>>>,
     <<<<"brand", "manufacturer">>, <<"mpn", "manufacturer">>>>,
     <<<<"brand", "mpn">>, <<"mpn", "brand">>>>,
     <<<<"gtin", "brand">>, <<"brand", "manufacturer">>>>,
     <<<<"brand", "">>>>}

MappingValueTables ==
    {<<>>,
     <<<<"new", "Brand New">>, <<"used", "Pre-owned">>>>,
     <<<<"new", "Brand New">>, <<"used", "Brand New">>>>,
     <<<<"new", "used">>, <<"used", "new">>>>,
     <<<<"new", "NEW">>>>}

MappingTables ==
    {[fieldMappings |-> f,
      valueMappings |-> [condition |-> v, gender |-> <<>>, ageGroup |-> <<>>]] :
        f \in MappingFieldTables, v \in MappingValueTables}

MappingCommerces ==
    {[products |-> [sku \in {"A"} |-> SimpleProduct("A", USD(10, 1), attrs)],
      variants |-> EmptyMap] :
        attrs \in {<<>>,
                   <<Attr("manufacturer", "Acme"), Attr("condition", "Brand New")>>,
                   <<Attr("brand", "Acme"), Attr("condition", "used")>>}}

InitMapping ==
    InitWith(
        ValidParams(ACO_EVENT_TYPE_PRODUCT,
                    SeqsUpTo({Item("A", op, EnSource, <<>>) : op \in {"create", "update"}},
                             MaxItems)),
        {<<Market(1, EN_US, "pb1")>>},
        MappingTables, MappingCommerces, {NoFault})

SpecMapping == InitMapping /\ [][Next]_vars

MappedFields(mapping) ==
    {mapping.fieldMappings[i][1] : i \in 1..Len(mapping.fieldMappings)}

HasDuplicate(table) ==
    \E i, j \in 1..Len(table) : i # j /\ table[i][2] = table[j][2]

\* C18: for a Google field with a mapping, the custom name found for the
\* Google name found for its custom name is its custom name again; for a
\* custom value of a field's value map, the custom value found for the
\* Google value found for it is that value again
C18_MappingRoundTrip ==
    /\ \A f \in MappedFields(attributeMapping) :
          getCustomAttrName(attributeMapping,
              getGoogleFieldName(attributeMapping,
                  getCustomAttrName(attributeMapping, f)))
            = getCustomAttrName(attributeMapping, f)
    /\ \A field \in DOMAIN attributeMapping.valueMappings :
          \A i \in 1..Len(attributeMapping.valueMappings[field]) :
              LET v == attributeMapping.valueMappings[field][i][2]
              IN  valueToSource(attributeMapping,
                                mapEnumValue(attributeMapping, Some(v), field)[1],
                                field) = v

\* under a table with two Google names for "manufacturer" and two Google
\* values for "Brand New", a record went out with its brand and condition
\* found through the table
C18_Witness ==
    /\ HasDuplicate(attributeMapping.fieldMappings)
    /\ HasDuplicate(attributeMapping.valueMappings.condition)
    /\ \E i \in 1..Len(feedCalls) : \E j \in 1..Len(feedCalls[i].records) :
          LET attrs == feedCalls[i].records[j].productAttributes
          IN  /\ "brand" \in DOMAIN attrs
              /\ attrs.brand = "Acme"
              /\ attrs.condition = "new"

----------------------------------------------------------------------------
(* The summary *)

RECURSIVE SumProcessed(_)
SumProcessed(calls) ==
    IF Len(calls) = 0 THEN 0 ELSE Len(Head(calls).items) + SumProcessed(Tail(calls))

Summarised ==
    /\ pc = "done"
    /\ response[1].statusCode = HTTP_OK
    /\ response[1].body.response[1].kind = "Processed"

\* C19: the summary of a successful invocation reports as N the number of
\* items handed to the processing of a market, summed over the markets, and
\* as M the number of markets whose processing ran, whatever the event type
C19_SummaryCountsProcessed ==
    Summarised =>
        /\ response[1].body.response[1].n = SumProcessed(procCalls)
        /\ response[1].body.response[1].m = Len(procCalls)

\* a price event is summarised after the processing of one routed market was
\* left out
C19_Witness ==
    /\ Summarised
    /\ params.type = Some(ACO_EVENT_TYPE_PRICE)
    /\ Len(procCalls) > 0
    /\ Len(procCalls) < Len(itemsByMarket)

----------------------------------------------------------------------------
(* Fan-out: product events of up to one item more than a fetch batch holds,
   all creates or all deletes, the SKUs "1", "2", ... *)

FanOutSkus == [i \in 1..(BATCH_SIZE + 1) |-> ToString(i)]

FanOutBatches ==
    {[i \in 1..n |-> Item(FanOutSkus[i], op, EnSource, <<>>)] :
        n \in 0..(BATCH_SIZE + 1), op \in {"create", "delete"}}

FanOutCommerce ==
    [products |-> [sku \in Range(FanOutSkus) |-> SimpleProduct(sku, USD(10, 1), <<>>)],
     variants |-> EmptyMap]

InitFanOut ==
    InitWith(
        ValidParams(ACO_EVENT_TYPE_PRODUCT, FanOutBatches),
        {<<Market(1, EN_US, "pb1")>>},
        {DefaultMapping}, {FanOutCommerce}, {NoFault})

SpecFanOut == InitFanOut /\ [][Next]_vars

\* C20: a dispatch call is handed at most BATCH_SIZE records or SKUs, and
\* issues one request for each
C20_DispatchWithinBatchSize ==
    \A i \in 1..Len(feedCalls) :
        /\ Len(feedCalls[i].records) <= BATCH_SIZE
        /\ Len(feedCalls[i].requests) = Len(feedCalls[i].records)

\* one dispatch call was handed more records than a fetch batch holds, after
\* the SKUs were fetched in two batches
C20_Witness ==
    /\ \E i \in 1..Len(feedCalls) : Len(feedCalls[i].records) > BATCH_SIZE
    /\ \E i, j \in 1..Len(catalogCalls) :
          /\ i # j
          /\ Len(catalogCalls[i].skus) = BATCH_SIZE
          /\ Len(catalogCalls[j].skus) = 1

----------------------------------------------------------------------------
(* A failed dispatch call *)

FeedError == errorResponse(HTTP_INTERNAL_ERROR, Message("error", "Feed provider error"))

\* C21: a dispatch call with a failed request rejects as a whole: every
\* request of the call was issued, the invocation ends there with the error
\* and no result, the call is not made again and no call follows it, and
\* the calls made before it stay as they were
C21_FailedCallRejectsWhole ==
    \A i \in 1..Len(feedCalls) :
        ~feedCalls[i].ok =>
            /\ i = Len(feedCalls)
            /\ Len(feedCalls[i].requests) = Len(feedCalls[i].records)
            /\ pc = "done"
            /\ response = Some(FeedError)
            /\ \A j \in 1..(i - 1) : feedCalls[j].ok

\* a call of two requests failed and the invocation has ended
C21_Witness ==
    \E i \in 1..Len(feedCalls) :
        /\ ~feedCalls[i].ok
        /\ Len(feedCalls[i].requests) = 2
        /\ pc = "done"

----------------------------------------------------------------------------
(* Fetch batches: product events creating from none up to one SKU more than
   two fetch batches hold *)

ChunkSkus == [i \in 1..(2 * BATCH_SIZE + 1) |-> ToString(i)]

ChunkBatches ==
    {[i \in 1..n |-> Item(ChunkSkus[i], "create", EnSource, <<>>)] :
        n \in 0..(2 * BATCH_SIZE + 1)}

ChunkCommerce ==
    [products |-> [sku \in Range(ChunkSkus) |-> SimpleProduct(sku, USD(10, 1), <<>>)],
     variants |-> EmptyMap]

InitChunks ==
    InitWith(
        ValidParams(ACO_EVENT_TYPE_PRODUCT, ChunkBatches),
        {<<Market(1, EN_US, "pb1")>>},
        {DefaultMapping}, {ChunkCommerce}, {NoFault})

SpecChunks == InitChunks /\ [][Next]_vars

\* the SKUs the products requests made so far carried, in call order
FetchedSkus ==
    Concat([i \in 1..Len(catalogCalls) |-> catalogCalls[i].skus])

\* the creates of the market have been fetched
CreatesFetched ==
    pc = "proc" /\ proc.phase = "create" /\ proc.step = "dispatch"

\* C22: the products requests carry consecutive chunks of the SKU list: each
\* carries 1 to BATCH_SIZE SKUs, each but the last exactly BATCH_SIZE, in
\* call order they make up the list, and an empty list causes no request
C22_ConsecutiveChunks ==
    /\ \A i \in 1..Len(catalogCalls) :
          /\ catalogCalls[i].kind = "products"
          /\ Len(catalogCalls[i].skus) \in 1..BATCH_SIZE
          /\ i < Len(catalogCalls) => Len(catalogCalls[i].skus) = BATCH_SIZE
    /\ CreatesFetched =>
          FetchedSkus = [i \in 1..Len(proc.groups.create) |-> proc.groups.create[i].sku]
    /\ Len(Items) = 0 => catalogCalls = <<>>

\* a list of two full batches and one SKU more was fetched in three requests
C22_Witness ==
    /\ CreatesFetched
    /\ Len(catalogCalls) = 3
    /\ Len(catalogCalls[3].skus) = 1
    /\ Len(proc.groups.create) = 2 * BATCH_SIZE + 1

----------------------------------------------------------------------------
(* The pages of a variants fetch.  Page 1 is asked for with a null cursor;
   page k of a parent returns the cursor of page k + 1, the last page none *)

VariantCallsOf(parentSku) ==
    SelectSeq(catalogCalls, LAMBDA c : c.kind = "variants" /\ c.parentSku = parentSku)

LastPageOf(parentSku) ==
    IF Len(PagesOf([commerce |-> commerce], parentSku)) = 0 THEN 1
    ELSE Len(PagesOf([commerce |-> commerce], parentSku))

ParentsAskedFor == {catalogCalls[i].parentSku : i \in 1..Len(catalogCalls)} \ {""}

----------------------------------------------------------------------------
(* Variant merge: variant V of parent P, the attributes of each one of: none,
   a colour, another colour, an empty colour, a brand and a note, a
   condition, a gtin *)

MergeAttributes ==
    {<<>>,
     <<Attr("color", "red")>>,
     <<Attr("color", "blue")>>,
     <<Attr("color", "")>>,
     <<Attr("brand", "Acme"), Attr("note", "x")>>,
     <<Attr("condition", "Used")>>,
     <<Attr("gtin", "123")>>}

MergeCommerces ==
    {[products |-> [sku \in {"P"} |-> ComplexProduct("P", pa)],
      variants |-> [sku \in {"P"} |->
                        <<<<Variant(SimpleProduct("V", USD(10, 1), va))>>>>]] :
        pa \in MergeAttributes, va \in MergeAttributes}

InitMerge ==
    InitWith(
        ValidParams(ACO_EVENT_TYPE_PRODUCT,
                    {<<Item("V", "create", EnSource, VariantOf("P"))>>}),
        {<<Market(1, EN_US, "pb1")>>},
        {DefaultMapping}, MergeCommerces, {NoFault})

SpecMerge == InitMerge /\ [][Next]_vars

ParentAttributes == commerce.products["P"].attributes

VariantAttributes == commerce.variants["P"][1][1].product.attributes

\* the non-empty values a list of attributes carries for a Google field, as
\* the record holds them: a gtin as a list of one, an enum value mapped
CarriedFor(attributes, field) ==
    {IF field = "gtin" THEN <<a.value>>
     ELSE IF field \in ENUM_FIELDS
     THEN mapEnumValue(attributeMapping, Some(a.value), field)[1]
     ELSE a.value :
        a \in {b \in Range(attributes) :
                  b.value # "" /\ getGoogleFieldName(attributeMapping, b.name) = field}}

RecordKey(field) == IF field = "gtin" THEN "gtins" ELSE field

\* the variant's value, else the parent's
MergedFor(field) ==
    IF CarriedFor(VariantAttributes, field) # {} THEN CarriedFor(VariantAttributes, field)
    ELSE CarriedFor(ParentAttributes, field)

CustomOf(attributes) ==
    SelectSeq(attributes, LAMBDA a :
        a.value # "" /\ getGoogleFieldName(attributeMapping, a.name)
                            \notin GOOGLE_STANDARD_FIELDS)

VariantRecords ==
    {r \in UpsertRecords : r.offerId = "V"}

\* the record holds the merged value of the field, or lacks the field when
\* neither the variant nor the parent carries it
MergedOrAbsent(record, field) ==
    IF MergedFor(field) = {}
    THEN RecordKey(field) \notin DOMAIN record.productAttributes
    ELSE /\ RecordKey(field) \in DOMAIN record.productAttributes
         /\ record.productAttributes[RecordKey(field)] \in MergedFor(field)

\* the fields the transform fills in when no attribute gives them
DefaultedFields == {"condition", "itemGroupId"}

----------------------------------------------------------------------------
(* Images: simple product A with up to MaxImages images of three URLs, with
   the "image" role or with another one *)

Image(url, roles) == [url |-> url, roles |-> roles]

ImageChoices ==
    {Image(url, roles) : url \in {"u1", "u2"}, roles \in {{"image"}, {"thumbnail"}}}
        \cup {Image("u3", {})}

ImageCommerces ==
    {[products |-> [sku \in {"A"} |->
                        [SimpleProduct("A", USD(10, 1), <<>>) EXCEPT !.images = imgs]],
      variants |-> EmptyMap] : imgs \in SeqsUpTo(ImageChoices, MaxImages)}

InitImages ==
    InitWith(
        ValidParams(ACO_EVENT_TYPE_PRODUCT, {<<Item("A", "create", EnSource, <<>>)>>}),
        {<<Market(1, EN_US, "pb1")>>},
        {DefaultMapping}, ImageCommerces, {NoFault})

SpecImages == InitImages /\ [][Next]_vars

ImagesOfA == commerce.products["A"].images

Flagged(images) == {i \in 1..Len(images) : "image" \in images[i].roles}

FirstOf(S) == CHOOSE i \in S : \A j \in S : i <= j

\* the URL of the first flagged image, or of the first image
ExpectedPrimary(images) ==
    IF Flagged(images) # {} THEN images[FirstOf(Flagged(images))].url
    ELSE images[1].url

FirstOccurrence(images, url) ==
    FirstOf({i \in 1..Len(images) : images[i].url = url})

AdditionalOf(record) ==
    IF "additionalImageLinks" \in DOMAIN record.productAttributes
    THEN record.productAttributes.additionalImageLinks ELSE <<>>

\* C25: the record's primary image is the first image with the "image" role,
\* or the first image when none has it; its additional images are the other
\* URLs of the record, each once, in the order of their first occurrence,
\* the primary URL not among them
C25_PrimaryAndAdditionalImages ==
    \A r \in UpsertRecords :
        LET images == ImagesOfA
            additional == AdditionalOf(r)
        IN  IF Len(images) = 0
            THEN r.productAttributes.imageLink = None /\ additional = <<>>
            ELSE /\ r.productAttributes.imageLink = Some(ExpectedPrimary(images))
                 /\ Range(additional)
                      = {images[i].url : i \in 1..Len(images)} \ {ExpectedPrimary(images)}
                 /\ \A i, j \in 1..Len(additional) :
                      i < j => FirstOccurrence(images, additional[i])
                                 < FirstOccurrence(images, additional[j])

\* the flagged image came second, and a URL that occurs twice is listed once
C25_Witness ==
    /\ Len(ImagesOfA) = 3
    /\ Flagged(ImagesOfA) = {2}
    /\ ImagesOfA[1].url = ImagesOfA[3].url
    /\ \E r \in UpsertRecords :
          /\ r.productAttributes.imageLink = Some(ImagesOfA[2].url)
          /\ AdditionalOf(r) = <<ImagesOfA[1].url>>

----------------------------------------------------------------------------
(* Shipping: simple product A and variant V of parent P, with or without a
   shipping price and a shipping method, for a market of one of two
   countries *)

ShippingAttributes ==
    {<<>>,
     <<Attr("shippingPrice", "4.99")>>,
     <<Attr("shippingPrice", "4.99"), Attr("shippingMethod", "express")>>,
     <<Attr("shippingPrice", "0")>>,
     <<Attr("shippingMethod", "express")>>,
     <<Attr("shippingPrice", "")>>}

ShippingCommerces ==
    {[products |-> [sku \in {"A", "P"} |->
                        IF sku = "A" THEN SimpleProduct("A", USD(10, 1), sa)
                        ELSE ComplexProduct("P", pa)],
      variants |-> [sku \in {"P"} |->
                        <<<<Variant(SimpleProduct("V", USD(12, 1), va))>>>>]] :
        sa \in ShippingAttributes, va \in ShippingAttributes,
        pa \in {<<>>, <<Attr("shippingPrice", "5")>>}}

ShippingMarkets ==
    {<<[Market(1, EN_US, "pb1") EXCEPT !.google.targetCountry = country]>> :
        country \in {"US", "CA"}}

InitShipping ==
    InitWith(
        ValidParams(ACO_EVENT_TYPE_PRODUCT,
                    {<<Item("A", "create", EnSource, <<>>),
                       Item("V", "create", EnSource, VariantOf("P"))>>}),
        ShippingMarkets, {DefaultMapping}, ShippingCommerces, {NoFault})

SpecShipping == InitShipping /\ [][Next]_vars

\* the attributes of the catalog record a dispatched record was made from
CatalogAttributesOf(offerId) ==
    IF offerId = "A" THEN commerce.products["A"].attributes
    ELSE commerce.variants["P"][1][1].product.attributes

\* the non-empty values a list of attributes has under a name
ValuesOf(attributes, name) ==
    {a.value : a \in {b \in Range(attributes) : b.name = name /\ b.value # ""}}

ExpectedShippingMicros(value) ==
    CASE value = "4.99" -> 4990000
      [] value = "5" -> 5000000
      [] OTHER -> 0

----------------------------------------------------------------------------
(* Grouping: batches of items of distinct SKUs whose operation is create,
   update, delete, a name that is no group ("patch"), or the name of a
   member every object inherits ("constructor") *)

KnownOperations == {"create", "update", "delete"}

InitGroups ==
    InitWith(
        ValidParams(ACO_EVENT_TYPE_PRODUCT,
                    Batches(KnownOperations \cup {"patch", "constructor"}, {EnSource})),
        {<<Market(1, EN_US, "pb1")>>},
        {DefaultMapping}, {SimpleCommerce}, {NoFault})

SpecGroups == InitGroups /\ [][Next]_vars

\* the positions at which a group holds an item
PositionsIn(group, item) == {k \in 1..Len(group) : group[k] = item}

\* the SKUs a catalog request asked for or a feed call carried
SkusRequested ==
    UNION {Range(catalogCalls[i].skus) : i \in 1..Len(catalogCalls)}
        \cup UNION {{IF feedCalls[i].op = "delete" THEN r.sku ELSE r.offerId :
                        r \in Range(feedCalls[i].records)} : i \in 1..Len(feedCalls)}

\* C27: of every batch handed to the processor the grouping returns groups
\* in which an item of a known operation is exactly once, in the group of
\* its operation alone and in input order, and an item of any other
\* operation is in no group and in no catalog or feed request
C27_GroupsPartitionBatch ==
    \A c \in Range(procCalls) :
        LET items == c.items
            g == groupByOperation(items)
        IN  /\ ~g.threw
            /\ \A i \in 1..Len(items), op \in KnownOperations :
                  Cardinality(PositionsIn(g[op], items[i]))
                      = IF items[i].operation = op THEN 1 ELSE 0
            /\ \A i, j \in 1..Len(items), op \in KnownOperations :
                  (i < j /\ items[i].operation = op /\ items[j].operation = op)
                      => \A k \in PositionsIn(g[op], items[i]),
                            l \in PositionsIn(g[op], items[j]) : k < l
            /\ \A i \in 1..Len(items) :
                  items[i].operation \notin KnownOperations
                      => items[i].sku \notin SkusRequested

\* a create for A came with an item whose operation is "constructor": the
\* invocation ended in a 500 and nothing was fetched or dispatched for A
C27_Witness ==
    /\ pc = "done"
    /\ Len(procCalls) = 1
    /\ \E i, j \in 1..Len(procCalls[1].items) :
          /\ procCalls[1].items[i].operation = "create"
          /\ procCalls[1].items[j].operation = "constructor"
    /\ response = Some(errorResponse(HTTP_INTERNAL_ERROR,
                           Message("error", "acc[operation].push is not a function")))
    /\ catalogCalls = <<>>
    /\ feedCalls = <<>>

----------------------------------------------------------------------------
(* Condition: simple product A and variant V of parent P, with or without
   a condition attribute under its Google name or under a mapped custom
   name, with the default mapping or one that maps the field and a value *)

ConditionMapping ==
    [fieldMappings |-> <<<<"condition", "state">>>>,
     valueMappings |-> [condition |-> <<<<"used", "Second Hand">>>>,
                        gender |-> <<>>, ageGroup |-> <<>>]]

ConditionAttributes ==
    {<<>>,
     <<Attr("condition", "Used")>>,
     <<Attr("condition", "mint")>>,
     <<Attr("state", "Second Hand")>>}

ConditionCommerces ==
    {[products |-> [sku \in {"A", "P"} |->
                        IF sku = "A" THEN SimpleProduct("A", USD(10, 1), ca)
                        ELSE ComplexProduct("P", pa)],
      variants |-> [sku \in {"P"} |->
                        <<<<Variant(SimpleProduct("V", USD(12, 1), va))>>>>]] :
        ca \in ConditionAttributes, va \in ConditionAttributes,
        pa \in {<<>>, <<Attr("condition", "Used")>>}}

InitCondition ==
    InitWith(
        ValidParams(ACO_EVENT_TYPE_PRODUCT,
                    {<<Item("A", "create", EnSource, <<>>),
                       Item("V", "create", EnSource, VariantOf("P"))>>}),
        {<<Market(1, EN_US, "pb1")>>},
        {DefaultMapping, ConditionMapping}, ConditionCommerces, {NoFault})

SpecCondition == InitCondition /\ [][Next]_vars

ConditionEnum == {"Condition.NEW", "Condition.USED", "Condition.REFURBISHED"}

\* C28: the condition of every dispatched record is one of the values of
\* the Condition enum
C28_ConditionIsEnumValue ==
    \A r \in UpsertRecords : r.productAttributes.condition \in ConditionEnum

\* A, whose condition attribute is "Used", went out with the lowercased
\* attribute value as its condition
C28_Witness ==
    /\ attributeMapping = DefaultMapping
    /\ commerce.products["A"].attributes = <<Attr("condition", "Used")>>
    /\ \E r \in UpsertRecords :
          /\ r.offerId = "A"
          /\ r.productAttributes.condition = "used"

----------------------------------------------------------------------------
(* Transform failures: simple products A and B and the variants V and W of
   parent P, each with a price or without one, two of them in a batch *)

SkipBatches ==
    {<<Item("A", "create", EnSource, <<>>), Item("B", "create", EnSource, <<>>)>>,
     <<Item("A", "update", EnSource, <<>>), Item("B", "update", EnSource, <<>>)>>,
     <<Item("A", "create", EnSource, <<>>), Item("B", "update", EnSource, <<>>)>>,
     <<Item("A", "create", EnSource, <<>>),
       Item("V", "create", EnSource, VariantOf("P"))>>,
     <<Item("V", "create", EnSource, VariantOf("P")),
       Item("W", "create", EnSource, VariantOf("P"))>>}

SkipCommerces ==
    {[products |-> [sku \in {"A", "B", "P"} |->
                        IF sku = "P" THEN ComplexProduct("P", <<>>)
                        ELSE SimpleProduct(sku, IF sku = "A" THEN ap ELSE bp, <<>>)],
      variants |-> [sku \in {"P"} |->
                        <<<<Variant(SimpleProduct("V", vp, <<>>)),
                            Variant(SimpleProduct("W", wp, <<>>))>>>>]] :
        ap \in {None, USD(10, 1)}, bp \in {None, USD(10, 1)},
        vp \in {None, USD(12, 1)}, wp \in {None, USD(12, 1)}}

InitSkip ==
    InitWith(ValidParams(ACO_EVENT_TYPE_PRODUCT, SkipBatches),
             {<<Market(1, EN_US, "pb1")>>},
             {DefaultMapping}, SkipCommerces, {NoFault})

SpecSkip == InitSkip /\ [][Next]_vars

\* the catalog record Commerce returns for an item of the batch
CatalogRecordOf(sku) ==
    IF sku \in {"A", "B"} THEN commerce.products[sku]
    ELSE LET variants == commerce.variants["P"][1]
         IN  variants[CHOOSE k \in 1..Len(variants) : variants[k].product.sku = sku].product

HasPrice(sku) ==
    \/ IsSome(CatalogRecordOf(sku).price)
    \/ IsSome(CatalogRecordOf(sku).priceRange)

\* the offer ids of the records the calls of an operation carried
OfferIdsSent(op) ==
    UNION {{r.offerId : r \in Range(feedCalls[i].records)} :
              i \in {j \in 1..Len(feedCalls) : feedCalls[j].op = op}}

\* C29: when the invocation is over, it has not failed, and every create or
\* update item went out in a call of its operation exactly when its record
\* has a price, whatever became of the other items of its group
C29_FailedItemAloneSkipped ==
    pc = "done" =>
        /\ response[1].statusCode = HTTP_OK
        /\ \A i \in 1..Len(Items) :
              Items[i].operation \in {"create", "update"} =>
                  (Items[i].sku \in OfferIdsSent(FeedOp(Items[i].operation))
                      <=> HasPrice(Items[i].sku))

\* the creates for A, which has no price, and B, which has one: B alone
\* was inserted and the invocation succeeded
C29_Witness ==
    /\ pc = "done"
    /\ response[1].statusCode = HTTP_OK
    /\ Len(Items) = 2
    /\ Items[1].sku = "A" /\ Items[1].operation = "create"
    /\ Items[2].sku = "B" /\ Items[2].operation = "create"
    /\ ~HasPrice("A")
    /\ HasPrice("B")
    /\ Len(feedCalls) = 1
    /\ OfferIdsSent("insert") = {"B"}

----------------------------------------------------------------------------
(* The order of the operation groups *)

OpRank(op) ==
    CASE op = "insert" -> 1
      [] op = "update" -> 2
      [] OTHER -> 3

====
